---------------------------- MODULE Spec2Model ----------------------------
(***************************************************************************)
(* A model of the bookaboo request parser (src/nlp_parser.py).             *)
(*                                                                         *)
(* The request text is a sequence of tokens separated by single blanks.    *)
(* A token is a record [k, s, a, b, c]:                                    *)
(*   k = "word"   the word s, in its original spelling                     *)
(*   k = "num"    a run of b decimal digits; its value is a when b <= 9    *)
(*   k = "iso"    YYYY-MM-DD with year a, month b, day c (4-2-2 digits)    *)
(*   k = "pair"   a<s>b with s one of "/" "-", both written without        *)
(*                leading zeros, both below 100                            *)
(*   k = "clock"  a:bb<s>  hour a, two-digit minute b, s one of "" am pm   *)
(*   k = "hour"   a<s>     hour a directly followed by s = am or pm        *)
(* Every regular expression of the source is translated to what it matches *)
(* on such a text: \b falls between a digit or letter and a blank, a       *)
(* separator or the end of the text; \s+ is the blank between two tokens.  *)
(***************************************************************************)
EXTENDS Integers, Sequences, FiniteSets

\* The parser: text, now: the arguments of the call; wall: what
\* datetime.now() reads; req: the record; pc: "call", "returned" or "raised";
\* calls: the earlier calls of the process, each with its arguments, its wall
\* clock and its record.
\* The orchestrator (src/bookaboo.py): rpc: the position of reserve(); loc:
\* its local variables; result: the BookingResult it returns; effects: what
\* it has done to the outside, in order; store: the events of the local
\* calendar store.
\* threads: the concurrent invocations of the parser, each with its
\* arguments, its position and its record.
\* srv: the API server (src/api_server.py): the configured key, the request
\* and what became of it.
VARIABLES text, now, wall, req, pc, calls, rpc, loc, result, effects, store,
          threads, srv

parserVars == <<text, now, wall, req, pc, calls>>

flowVars == <<rpc, loc, result, effects, store>>

vars == <<text, now, wall, req, pc, calls, rpc, loc, result, effects, store,
          threads, srv>>

----------------------------------------------------------------------------
(* Bounds of the model. *)

MaxLen == 3

\* The longest text, in tokens, of the inputs drawn from the two small
\* vocabularies, which hold several phrases of one field.
MaxLongLen == 4

\* The number of calls of one process.
MaxCalls == 3

\* The longest list of slots an availability response carries.
MaxSlots == 2

\* The number of concurrent invocations of the parser.
MaxThreads == 2

----------------------------------------------------------------------------
(* datetime.date: the proleptic Gregorian calendar. *)

None == [y |-> 0, m |-> 0, d |-> 0]

MkDate(y, m, d) == [y |-> y, m |-> m, d |-> d]

IsLeap(y) == (y % 4 = 0) /\ ((y % 100 # 0) \/ (y % 400 = 0))

DaysInMonth(y, m) ==
    IF m = 2 THEN (IF IsLeap(y) THEN 29 ELSE 28)
    ELSE IF m \in {4, 6, 9, 11} THEN 30 ELSE 31

\* date(y, m, d) raises ValueError exactly when this is false.
ValidDate(y, m, d) ==
    /\ 1 <= y /\ y <= 9999
    /\ 1 <= m /\ m <= 12
    /\ 1 <= d /\ d <= DaysInMonth(y, m)

DaysBeforeYear(y) ==
    (y - 1) * 365 + ((y - 1) \div 4) - ((y - 1) \div 100) + ((y - 1) \div 400)

DaysBeforeMonth(y, m) ==
    <<0, 31, 59, 90, 120, 151, 181, 212, 243, 273, 304, 334>>[m]
        + (IF m > 2 /\ IsLeap(y) THEN 1 ELSE 0)

ToOrdinal(dt) == DaysBeforeYear(dt.y) + DaysBeforeMonth(dt.y, dt.m) + dt.d

\* date.weekday(): Monday is 0, Sunday is 6.
Weekday(dt) == (ToOrdinal(dt) + 6) % 7

\* d1 < d2 on dates.
DateLT(d1, d2) ==
    \/ d1.y < d2.y
    \/ d1.y = d2.y /\ d1.m < d2.m
    \/ d1.y = d2.y /\ d1.m = d2.m /\ d1.d < d2.d

NextDay(dt) ==
    IF dt.d < DaysInMonth(dt.y, dt.m) THEN MkDate(dt.y, dt.m, dt.d + 1)
    ELSE IF dt.m < 12 THEN MkDate(dt.y, dt.m + 1, 1)
    ELSE MkDate(dt.y + 1, 1, 1)

RECURSIVE AddDays(_, _)
\* dt + timedelta(days=n), n >= 0.
AddDays(dt, n) == IF n = 0 THEN dt ELSE AddDays(NextDay(dt), n - 1)

----------------------------------------------------------------------------
(* Tokens. *)

Word(s) == [k |-> "word", s |-> s, a |-> 0, b |-> 0, c |-> 0]

Digits(v) == IF v < 10 THEN 1 ELSE IF v < 100 THEN 2 ELSE IF v < 1000 THEN 3 ELSE 4

Num(v) == [k |-> "num", s |-> "", a |-> v, b |-> Digits(v), c |-> 0]

Iso(y, m, d) == [k |-> "iso", s |-> "-", a |-> y, b |-> m, c |-> d]

Pair(a, sep, b) == [k |-> "pair", s |-> sep, a |-> a, b |-> b, c |-> 0]

Clock(h, mm, mer) == [k |-> "clock", s |-> mer, a |-> h, b |-> mm, c |-> 0]

Hour(h, mer) == [k |-> "hour", s |-> mer, a |-> h, b |-> 0, c |-> 0]

\* The mutant of Lower that leaves the text as written.
LowerIdentity(s) == s

\* str.lower() on the words of the vocabulary.
Lower(s) ==
    CASE s = "Tonight" -> "tonight"
      [] s = "Today" -> "today"
      [] s = "TOMORROW" -> "tomorrow"
      [] s = "Next" -> "next"
      [] s = "Friday" -> "friday"
      [] s = "Wed" -> "wed"
      [] s = "March" -> "march"
      [] s = "Feb" -> "feb"
      [] s = "PM" -> "pm"
      [] s = "For" -> "for"
      [] s = "People" -> "people"
      [] s = "Prozdor" -> "prozdor"
      [] s = "Taizu" -> "taizu"
      [] s = "Bar" -> "bar"
      [] s = "At" -> "at"
      [] s = "In" -> "in"
      [] s = "One" -> "one"
      [] s = "Book" -> "book"
      [] s = "The" -> "the"
      [] s = "Seattle" -> "seattle"
      [] OTHER -> s

\* The token is a word that reads w in text.lower().
IsWord(tok, w) == tok.k = "word" /\ Lower(tok.s) = w

\* (\d{1,2})\b at the start of the token: its value, or -1.
HeadNum12(tok) ==
    CASE tok.k = "num" -> (IF tok.b <= 2 THEN tok.a ELSE -1)
      [] tok.k = "pair" -> tok.a
      [] tok.k = "clock" -> tok.a
      [] OTHER -> -1

\* \b(\d{1,2}) at the end of the token: its value, or -1.
TailNum12(tok) ==
    CASE tok.k = "num" -> (IF tok.b <= 2 THEN tok.a ELSE -1)
      [] tok.k = "pair" -> tok.b
      [] tok.k = "iso" -> tok.c
      [] tok.k = "clock" -> (IF tok.s = "" THEN tok.b ELSE -1)
      [] OTHER -> -1

Min(S) == CHOOSE x \in S : \A z \in S : x <= z

----------------------------------------------------------------------------
(* _parse_date. A rule's outcome is [kind, val]: "return" with a date,     *)
(* "pass" when the rule did not decide, "raise" for an exception that      *)
(* leaves the function.                                                    *)

Return(v) == [kind |-> "return", val |-> v]

Pass == [kind |-> "pass", val |-> None]

_WEEKDAY_MAP ==
    << <<"monday", 0>>, <<"mon", 0>>,
       <<"tuesday", 1>>, <<"tue", 1>>, <<"tues", 1>>,
       <<"wednesday", 2>>, <<"wed", 2>>,
       <<"thursday", 3>>, <<"thu", 3>>, <<"thur", 3>>, <<"thurs", 3>>,
       <<"friday", 4>>, <<"fri", 4>>,
       <<"saturday", 5>>, <<"sat", 5>>,
       <<"sunday", 6>>, <<"sun", 6>> >>

_MONTH_MAP ==
    << <<"january", 1>>, <<"jan", 1>>,
       <<"february", 2>>, <<"feb", 2>>,
       <<"march", 3>>, <<"mar", 3>>,
       <<"april", 4>>, <<"apr", 4>>,
       <<"may", 5>>,
       <<"june", 6>>, <<"jun", 6>>,
       <<"july", 7>>, <<"jul", 7>>,
       <<"august", 8>>, <<"aug", 8>>,
       <<"september", 9>>, <<"sep", 9>>, <<"sept", 9>>,
       <<"october", 10>>, <<"oct", 10>>,
       <<"november", 11>>, <<"nov", 11>>,
       <<"december", 12>>, <<"dec", 12>> >>

\* now=None, the default of the parameter.
NoNow == [y |-> 0, m |-> 0, d |-> 0, hh |-> 0, mi |-> 0]

\* The mutant of _today that reads the wall clock whatever now is.
_todayWallClock(n, w) == MkDate(w.y, w.m, w.d)

\* (now or datetime.now()).date()
_today(n, w) == IF n = NoNow THEN MkDate(w.y, w.m, w.d) ELSE MkDate(n.y, n.m, n.d)

\* re.search(r"\b<w>\b", lower)
HasWord(t, w) == \E i \in 1..Len(t) : IsWord(t[i], w)

\* re.search(r"\btonight\b|\btoday\b", lower): return today
TonightRule(t, today) ==
    IF HasWord(t, "tonight") \/ HasWord(t, "today") THEN Return(today) ELSE Pass

\* re.search(r"\btomorrow\b", lower): return today + timedelta(days=1)
TomorrowRule(t, today) ==
    IF HasWord(t, "tomorrow") THEN Return(AddDays(today, 1)) ELSE Pass

\* re.search(rf"\bnext\s+{name}\b", lower)
HasNext(t, name) ==
    \E i \in 1..(Len(t) - 1) : IsWord(t[i], "next") /\ IsWord(t[i + 1], name)

\* The mutant of DaysAhead that keeps 0 for today's own weekday.
DaysAheadKeepZero(t, name, num, today) == (num - Weekday(today)) % 7

\* days_ahead for the weekday name found in the text.
DaysAhead(t, name, num, today) ==
    LET days_ahead == (num - Weekday(today)) % 7
    IN  IF HasNext(t, name)
        THEN (IF days_ahead = 0 THEN 7 ELSE days_ahead)
        ELSE (IF days_ahead = 0 THEN 7 ELSE days_ahead)

RECURSIVE WeekdayFrom(_, _, _)
\* for name, weekday_num in _WEEKDAY_MAP.items(), from entry i on.
WeekdayFrom(i, t, today) ==
    IF i > Len(_WEEKDAY_MAP) THEN Pass
    ELSE LET name == _WEEKDAY_MAP[i][1]
             num == _WEEKDAY_MAP[i][2]
         IN  IF HasWord(t, name)
             THEN Return(AddDays(today, DaysAhead(t, name, num, today)))
             ELSE WeekdayFrom(i + 1, t, today)

\* The mutant of WeekdayRule that goes by the first weekday name of the text.
WeekdayRuleTextOrder(t, today) ==
    LET named == {i \in 1..Len(t) :
                     \E j \in 1..Len(_WEEKDAY_MAP) : IsWord(t[i], _WEEKDAY_MAP[j][1])}
    IN  IF named = {} THEN Pass
        ELSE LET j == CHOOSE j \in 1..Len(_WEEKDAY_MAP) :
                          IsWord(t[Min(named)], _WEEKDAY_MAP[j][1])
             IN  Return(AddDays(today, DaysAhead(t, _WEEKDAY_MAP[j][1],
                                                 _WEEKDAY_MAP[j][2], today)))

WeekdayRule(t, today) == WeekdayFrom(1, t, today)

\* The mutant of Before that also rolls a date equal to today.
BeforeOrEqual(d1, d2) == DateLT(d1, d2) \/ d1 = d2

\* d < today, the test that rolls a yearless date into the next year.
Before(d1, d2) == DateLT(d1, d2)

\* The mutant of YearlessDate that never rolls into the next year.
YearlessDateNoRoll(month, day, today) ==
    IF ~ValidDate(today.y, month, day) THEN Pass
    ELSE Return(MkDate(today.y, month, day))

\* try: d = date(year, month, day); if d < today: d = date(year + 1, month,
\* day); return d; except ValueError: (pass | continue)
YearlessDate(month, day, today) ==
    IF ~ValidDate(today.y, month, day) THEN Pass
    ELSE IF Before(MkDate(today.y, month, day), today)
         THEN (IF ValidDate(today.y + 1, month, day)
               THEN Return(MkDate(today.y + 1, month, day))
               ELSE Pass)
         ELSE Return(MkDate(today.y, month, day))

\* The day of the first match of "<month_name> <day>", else of the first
\* match of "<day> <month_name>", else -1.
MonthDay(t, month_name) ==
    LET after == {i \in 1..(Len(t) - 1) :
                     IsWord(t[i], month_name) /\ HeadNum12(t[i + 1]) >= 0}
        before == {i \in 1..(Len(t) - 1) :
                     TailNum12(t[i]) >= 0 /\ IsWord(t[i + 1], month_name)}
    IN  IF after # {} THEN HeadNum12(t[Min(after) + 1])
        ELSE IF before # {} THEN TailNum12(t[Min(before)])
        ELSE -1

RECURSIVE MonthFrom(_, _, _)
\* for month_name, month_num in _MONTH_MAP.items(), from entry i on.
MonthFrom(i, t, today) ==
    IF i > Len(_MONTH_MAP) THEN Pass
    ELSE LET day == MonthDay(t, _MONTH_MAP[i][1])
             r == IF day >= 0 THEN YearlessDate(_MONTH_MAP[i][2], day, today)
                  ELSE Pass
         IN  IF r.kind # "pass" THEN r ELSE MonthFrom(i + 1, t, today)

MonthRule(t, today) == MonthFrom(1, t, today)

\* re.search(r"\b(\d{4})-(\d{2})-(\d{2})\b", text): the first ISO token.
IsoRule(t, today) ==
    LET S == {i \in 1..Len(t) : t[i].k = "iso"}
    IN  IF S = {} THEN Pass
        ELSE LET tok == t[Min(S)]
             IN  IF ValidDate(tok.a, tok.b, tok.c)
                 THEN Return(MkDate(tok.a, tok.b, tok.c))
                 ELSE Pass

\* The mutant of Interpretations that reads A/B as month A, day B first.
InterpretationsMonthFirst(a, b) == << <<a, b>>, <<b, a>> >>

\* for (month, day) in [(b, a), (a, b)]
Interpretations(a, b) == << <<b, a>>, <<a, b>> >>

RECURSIVE PairFrom(_, _, _)
PairFrom(j, cands, today) ==
    IF j > Len(cands) THEN Pass
    ELSE LET month == cands[j][1]
             day == cands[j][2]
             r == IF 1 <= month /\ month <= 12 /\ 1 <= day /\ day <= 31
                  THEN YearlessDate(month, day, today)
                  ELSE Pass
         IN  IF r.kind # "pass" THEN r ELSE PairFrom(j + 1, cands, today)

\* re.search(r"\b(\d{1,2})[/\-](\d{1,2})\b", text): the first pair token, or
\* the month and day digits of the first ISO token, whichever comes first.
PairRule(t, today) ==
    LET S == {i \in 1..Len(t) : t[i].k \in {"pair", "iso"}}
    IN  IF S = {} THEN Pass
        ELSE LET tok == t[Min(S)]
                 a == IF tok.k = "pair" THEN tok.a ELSE tok.b
                 b == IF tok.k = "pair" THEN tok.b ELSE tok.c
             IN  PairFrom(1, Interpretations(a, b), today)

\* The mutant of DateRuleOrder that looks for a weekday name before tomorrow.
DateRuleOrderWeekdayFirst == <<"tonight", "weekday", "tomorrow", "month", "iso", "pair">>

\* The mutant of DateRuleOrder that tries the numeric formats first.
DateRuleOrderNumericFirst == <<"iso", "pair", "tonight", "tomorrow", "weekday", "month">>

\* The order of the rules in the body of _parse_date.
DateRuleOrder == <<"tonight", "tomorrow", "weekday", "month", "iso", "pair">>

DateRule(name, t, today) ==
    CASE name = "tonight" -> TonightRule(t, today)
      [] name = "tomorrow" -> TomorrowRule(t, today)
      [] name = "weekday" -> WeekdayRule(t, today)
      [] name = "month" -> MonthRule(t, today)
      [] name = "iso" -> IsoRule(t, today)
      [] name = "pair" -> PairRule(t, today)

RECURSIVE DateFrom(_, _, _)
DateFrom(i, t, today) ==
    IF i > Len(DateRuleOrder) THEN Return(None)
    ELSE LET r == DateRule(DateRuleOrder[i], t, today)
         IN  IF r.kind # "pass" THEN r ELSE DateFrom(i + 1, t, today)

_parse_date(t, n, w) == DateFrom(1, t, _today(n, w))

----------------------------------------------------------------------------
(* _parse_time. time_str is a sequence of characters; "" is <<>>. *)

DigitChar(n) == <<"0", "1", "2", "3", "4", "5", "6", "7", "8", "9">>[n + 1]

RECURSIVE Str(_)
\* str(n) for n >= 0.
Str(n) == IF n < 10 THEN <<DigitChar(n)>> ELSE Str(n \div 10) \o <<DigitChar(n % 10)>>

\* f"{n:02d}": at least two digits, padded with a zero.
Format02d(n) == IF n < 10 THEN <<"0">> \o Str(n) ELSE Str(n)

\* cleaned: the ISO dates and the D/D, D-D pairs are removed from the text.
IsDateLike(tok) == tok.k \in {"iso", "pair"}

\* The mutant of Cleaned that removes nothing.
CleanedKeepsDates(t) == t

Cleaned(t) == SelectSeq(t, LAMBDA tok : ~IsDateLike(tok))

\* The meridiem that the colon pattern captures with clock token i: the one
\* attached to it, else a following word am or pm, else "".
ClockMeridiem(t, i) ==
    IF t[i].s # "" THEN t[i].s
    ELSE IF i < Len(t) /\ (IsWord(t[i + 1], "am") \/ IsWord(t[i + 1], "pm"))
         THEN Lower(t[i + 1].s)
         ELSE ""

\* The mutant of To24 for which pm adds 12 to every hour, 12 included.
To24NoNoon(hour, meridiem) ==
    IF meridiem = "pm" THEN hour + 12
    ELSE IF meridiem = "am" /\ hour = 12 THEN 0
    ELSE hour

\* if meridiem == "pm" and hour != 12: hour += 12
\* elif meridiem == "am" and hour == 12: hour = 0
To24(hour, meridiem) ==
    IF meridiem = "pm" /\ hour # 12 THEN hour + 12
    ELSE IF meridiem = "am" /\ hour = 12 THEN 0
    ELSE hour

\* The mutant of InRange that lets hour 24 and minute 60 through.
InRangeOffByOne(hour, minute) ==
    0 <= hour /\ hour <= 24 /\ 0 <= minute /\ minute <= 60

\* 0 <= hour <= 23 and 0 <= minute <= 59
InRange(hour, minute) ==
    0 <= hour /\ hour <= 23 /\ 0 <= minute /\ minute <= 59

\* 1. the colon format: decided by the first clock token alone.
ColonTime(t) ==
    LET S == {i \in 1..Len(t) : t[i].k = "clock"}
    IN  IF S = {} THEN <<>>
        ELSE LET i == Min(S)
                 hour == To24(t[i].a, ClockMeridiem(t, i))
                 minute == t[i].b
             IN  IF InRange(hour, minute)
                 THEN Format02d(hour) \o <<":">> \o Format02d(minute)
                 ELSE <<>>

\* \b(\d{1,2})\s*(am|pm)\b starting in token i: <<hour, meridiem>>, or <<>>.
BareHourAt(t, i) ==
    LET tok == t[i]
        follows == i < Len(t) /\ (IsWord(t[i + 1], "am") \/ IsWord(t[i + 1], "pm"))
    IN  CASE tok.k = "hour" -> <<tok.a, tok.s>>
          [] tok.k = "clock" /\ tok.s # "" -> <<tok.b, tok.s>>
          [] tok.k = "clock" /\ tok.s = "" /\ follows -> <<tok.b, Lower(t[i + 1].s)>>
          [] tok.k = "num" /\ tok.b <= 2 /\ follows -> <<tok.a, Lower(t[i + 1].s)>>
          [] tok.k = "pair" /\ follows -> <<tok.b, Lower(t[i + 1].s)>>
          [] tok.k = "iso" /\ follows -> <<tok.c, Lower(t[i + 1].s)>>
          [] OTHER -> <<>>

\* 2. the bare hour with am/pm: decided by the first match alone.
BareTime(t) ==
    LET S == {i \in 1..Len(t) : BareHourAt(t, i) # <<>>}
    IN  IF S = {} THEN <<>>
        ELSE LET hm == BareHourAt(t, Min(S))
                 hour == To24(hm[1], hm[2])
             IN  IF InRange(hour, 0)
                 THEN Format02d(hour) \o <<":", "0", "0">>
                 ELSE <<>>

_parse_time(t) ==
    LET lower == Cleaned(t)
    IN  IF ColonTime(lower) # <<>> THEN ColonTime(lower) ELSE BareTime(lower)

----------------------------------------------------------------------------
(* _parse_party_size. A captured digit run is <<value, number of digits>>. *)

NoRun == <<-1, 0>>

\* (\d+) at the start of the token.
LeadDigits(tok) ==
    CASE tok.k = "num" -> <<tok.a, tok.b>>
      [] tok.k = "iso" -> <<tok.a, 4>>
      [] tok.k \in {"pair", "clock", "hour"} -> <<tok.a, Digits(tok.a)>>
      [] OTHER -> NoRun

\* (\d+) at the end of the token.
TrailDigits(tok) ==
    CASE tok.k = "num" -> <<tok.a, tok.b>>
      [] tok.k = "iso" -> <<tok.c, 2>>
      [] tok.k = "pair" -> <<tok.b, Digits(tok.b)>>
      [] tok.k = "clock" /\ tok.s = "" -> <<tok.b, 2>>
      [] OTHER -> NoRun

\* The token starts with people|persons?|guests?|pax|seats?|diners?
StartsWithNoun(tok) ==
    /\ tok.k = "word"
    /\ Lower(tok.s) \in {"people", "person", "persons", "guest", "guests", "pax",
                         "seat", "seats", "diner", "diners"}

\* The digit run captured by the first match of pattern number p, or NoRun.
PartyMatch(p, t) ==
    LET S1 == {i \in 1..(Len(t) - 1) :
                  IsWord(t[i], "for") /\ LeadDigits(t[i + 1]) # NoRun}
        S2 == {i \in 1..(Len(t) - 1) :
                  TrailDigits(t[i]) # NoRun /\ StartsWithNoun(t[i + 1])}
        S3 == {i \in 1..(Len(t) - 2) :
                  /\ IsWord(t[i], "party") /\ IsWord(t[i + 1], "of")
                  /\ LeadDigits(t[i + 2]) # NoRun}
        S4 == {i \in 1..(Len(t) - 2) :
                  /\ IsWord(t[i], "table") /\ IsWord(t[i + 1], "for")
                  /\ LeadDigits(t[i + 2]) # NoRun}
    IN  CASE p = 1 -> (IF S1 = {} THEN NoRun ELSE LeadDigits(t[Min(S1) + 1]))
          [] p = 2 -> (IF S2 = {} THEN NoRun ELSE TrailDigits(t[Min(S2)]))
          [] p = 3 -> (IF S3 = {} THEN NoRun ELSE LeadDigits(t[Min(S3) + 2]))
          [] p = 4 -> (IF S4 = {} THEN NoRun ELSE LeadDigits(t[Min(S4) + 2]))

\* int(s) raises ValueError for a digit string longer than the interpreter's
\* limit of 4300 digits (sys.int_info.default_max_str_digits).
IntRaises(run) == run[2] > 4300

\* The mutant of PartyInRange that has no upper limit.
PartyInRangeNoMax(n) == 1 <= n

\* 1 <= n <= 20
PartyInRange(n) == 1 <= n /\ n <= 20

\* The mutant of LoneDigitAt that looks at the text as it is, the am/pm
\* time phrases not removed.
LoneDigitAtNoStrip(t, i) ==
    LET tok == t[i]
    IN  CASE tok.k = "num" -> (IF tok.b = 1 /\ tok.a \in 2..9 THEN tok.a ELSE -1)
          [] tok.k = "pair" ->
                (IF tok.a \in 2..9 THEN tok.a
                 ELSE IF tok.b \in 2..9 THEN tok.b
                 ELSE -1)
          [] OTHER -> -1

\* The single digit 2..9 that stands alone in token i of the text with the
\* am/pm time phrases removed, or -1.
LoneDigitAt(t, i) ==
    LET tok == t[i]
        follows == i < Len(t) /\ (IsWord(t[i + 1], "am") \/ IsWord(t[i + 1], "pm"))
    IN  CASE tok.k = "num" ->
                (IF tok.b = 1 /\ tok.a \in 2..9 /\ ~follows THEN tok.a ELSE -1)
          [] tok.k = "pair" ->
                (IF tok.a \in 2..9 THEN tok.a
                 ELSE IF tok.b \in 2..9 /\ ~follows THEN tok.b
                 ELSE -1)
          [] OTHER -> -1

LoneDigit(t) ==
    LET S == {i \in 1..Len(t) : LoneDigitAt(t, i) >= 0}
    IN  IF S = {} THEN Return(2) ELSE Return(LoneDigitAt(t, Min(S)))

RECURSIVE PartyFromStopAtFirstMatch(_, _)
\* The mutant of PartyFrom in which an out-of-range match ends the search
\* with the default instead of passing on to the next pattern.
PartyFromStopAtFirstMatch(p, t) ==
    IF p > 4 THEN LoneDigit(t)
    ELSE LET run == PartyMatch(p, t)
         IN  IF run = NoRun THEN PartyFromStopAtFirstMatch(p + 1, t)
             ELSE IF IntRaises(run) THEN [kind |-> "raise", val |-> 0]
             ELSE IF PartyInRange(run[1]) THEN Return(run[1])
             ELSE Return(2)

RECURSIVE PartyFrom(_, _)
\* for pat in patterns, from pattern p on; then the lone digit; then 2.
PartyFrom(p, t) ==
    IF p > 4 THEN LoneDigit(t)
    ELSE LET run == PartyMatch(p, t)
         IN  IF run = NoRun THEN PartyFrom(p + 1, t)
             ELSE IF IntRaises(run) THEN [kind |-> "raise", val |-> 0]
             ELSE IF PartyInRange(run[1]) THEN Return(run[1])
             ELSE PartyFrom(p + 1, t)

_parse_party_size(t) == PartyFrom(1, t)

----------------------------------------------------------------------------
(* _parse_restaurant_name. A name is the sequence of its words. *)

_NOISE_WORDS ==
    {"book", "reserve", "make", "a", "table", "reservation", "for", "at", "in",
     "the", "restaurant", "tonight", "today", "tomorrow", "next", "people",
     "person", "guests", "guest", "pax", "dinner", "lunch", "breakfast",
     "brunch", "seats", "seat", "please", "me", "us", "want", "need", "get",
     "find", "search", "check", "monday", "tuesday", "wednesday", "thursday",
     "friday", "saturday", "sunday", "mon", "tue", "wed", "thu", "fri", "sat",
     "sun", "am", "pm"}

\* The mutant of IsNoise that compares the word as it is spelled.
IsNoiseExactCase(s) == s \in _NOISE_WORDS

\* The mutant of IsNoise that also takes a word for noise when a noise word
\* is a part of it (seattle holds seat and at).
IsNoiseSubstring(s) == Lower(s) \in _NOISE_WORDS \cup {"seattle"}

\* word.lower() in _NOISE_WORDS
IsNoise(s) == Lower(s) \in _NOISE_WORDS

\* The words of the vocabulary that start, in any case, with on, this, next,
\* tonight or tomorrow: what \s+(?:on|this|next|tonight|tomorrow) accepts.
StartsWithKeyword(tok) ==
    /\ tok.k = "word"
    /\ Lower(tok.s) \in {"on", "this", "next", "tonight", "tomorrow", "one", "once"}

\* What may follow the name of "at <Name>" after token j: the end of the
\* text, a digit, or one of the keywords.
AtNameEnds(t, j) == j = Len(t) \/ t[j + 1].k # "word" \/ StartsWithKeyword(t[j + 1])

\* The words t[i+1..j] can be the name: all words, two characters at least.
NameSpan(t, i, j) ==
    /\ i < j /\ j <= Len(t)
    /\ \A x \in (i + 1)..j : t[x].k = "word"
    /\ ~(j = i + 1 /\ Lower(t[j].s) = "a")

\* The last token of the shortest name that the pattern "at <Name>" matches
\* after the word at position i, or 0.
AtNameEnd(t, i) ==
    LET S == {j \in (i + 1)..Len(t) : NameSpan(t, i, j) /\ AtNameEnds(t, j)}
    IN  IF IsWord(t[i], "at") /\ S # {} THEN Min(S) ELSE 0

\* The spellings of the words t[i..j].
Spellings(t, i, j) == [x \in 1..(j - i + 1) |-> t[i + x - 1].s]

RECURSIVE _clean_restaurant_name(_)
\* while parts and parts[-1].lower() in _NOISE_WORDS: parts.pop()
_clean_restaurant_name(parts) ==
    IF parts # <<>> /\ IsNoise(parts[Len(parts)])
    THEN _clean_restaurant_name(SubSeq(parts, 1, Len(parts) - 1))
    ELSE parts

\* The "at <Name>" strategy: the first match decides.
AtName(t) ==
    LET S == {i \in 1..Len(t) : AtNameEnd(t, i) > 0}
    IN  IF S = {} THEN Pass
        ELSE LET i == Min(S)
                 j == AtNameEnd(t, i)
             IN  IF j = i + 1 /\ IsNoise(t[j].s) THEN Pass
                 ELSE [kind |-> "return",
                       val |-> _clean_restaurant_name(Spellings(t, i + 1, j))]

\* The "in <Name>" strategy: the name runs to the end of the text.
InName(t) ==
    LET S == {i \in 1..Len(t) : IsWord(t[i], "in") /\ NameSpan(t, i, Len(t))}
    IN  IF S = {} THEN Pass
        ELSE LET words == SelectSeq(Spellings(t, Min(S) + 1, Len(t)),
                                    LAMBDA w : ~IsNoise(w))
             IN  IF words # <<>>
                 THEN [kind |-> "return", val |-> _clean_restaurant_name(words)]
                 ELSE Pass

\* word[0].isupper(): the spellings of the vocabulary carry a capital first
\* letter or none at all.
IsCapitalised(s) == s # Lower(s)

\* The capitalised words that are no noise words, in the order of the text.
CapitalisedWords(t) ==
    LET W == SelectSeq(t, LAMBDA tok :
                 tok.k = "word" /\ IsCapitalised(tok.s) /\ ~IsNoise(tok.s))
    IN  [x \in 1..Len(W) |-> W[x].s]

_parse_restaurant_name(t) ==
    IF AtName(t).kind = "return" THEN AtName(t).val
    ELSE IF InName(t).kind = "return" THEN InName(t).val
    ELSE CapitalisedWords(t)

----------------------------------------------------------------------------
(* parse_reservation_request. *)

NoReq ==
    [restaurant_name |-> <<>>, date |-> None, time_str |-> <<>>, party_size |-> 0,
     raw |-> <<>>]

\* The mutant of DefaultTime that leaves an empty time empty.
DefaultTimeLeftEmpty(time_str) == time_str

\* if not req.time_str: req.time_str = "20:00"
DefaultTime(time_str) ==
    IF time_str = <<>> THEN <<"2", "0", ":", "0", "0">> ELSE time_str

parse_reservation_request(t, n, w) ==
    LET d == _parse_date(t, n, w)
        p == _parse_party_size(t)
    IN  IF d.kind = "raise" \/ p.kind = "raise" THEN [kind |-> "raise", val |-> NoReq]
        ELSE Return([restaurant_name |-> _parse_restaurant_name(t),
                     date |-> d.val,
                     time_str |-> DefaultTime(_parse_time(t)),
                     party_size |-> p.val,
                     raw |-> t])

ParseReservationRequest ==
    /\ pc = "call"
    /\ LET r == parse_reservation_request(text, now, wall)
       IN  /\ req' = r.val
           /\ pc' = IF r.kind = "raise" THEN "raised" ELSE "returned"
    /\ UNCHANGED <<text, now, wall, calls, rpc, loc, result, effects, store,
                   threads, srv>>

Next == ParseReservationRequest

----------------------------------------------------------------------------
(* The inputs: the texts of at most MaxLen tokens over a vocabulary, and   *)
(* the reference instants.                                                 *)

\* No reserve() is running, no thread is, and the server has no request.
FlowIdle ==
    rpc = "none" /\ loc = <<>> /\ result = <<>> /\ effects = <<>> /\ store = <<>>

ThreadsIdle == threads = <<>>

ServerIdle == srv = <<>>

Instant(y, m, d, hh, mi) == [y |-> y, m |-> m, d |-> d, hh |-> hh, mi |-> mi]

\* Wednesday noon; Friday after a leap day; the leap day; a Sunday New Year's Eve.
RefInstants ==
    {Instant(2025, 3, 5, 12, 0), Instant(2024, 3, 1, 0, 0),
     Instant(2024, 2, 29, 8, 30), Instant(2023, 12, 31, 23, 59)}

Texts(V) == UNION {[1..n -> V] : n \in 0..MaxLen}

\* Relative words, weekday names and one phrase of every numeric format.
DateVocab ==
    {Word("tonight"), Word("Today"), Word("TOMORROW"), Word("next"),
     Word("Friday"), Word("wed"), Word("march"), Num(5),
     Iso(2025, 3, 15), Iso(2020, 1, 1), Iso(2025, 13, 5),
     Pair(5, "/", 3), Pair(13, "/", 45)}

\* Yearless phrases (month names, days, pairs), ISO dates that are past or
\* no calendar day, and one relative word.
YearlessVocab ==
    {Word("tonight"), Word("March"), Word("Feb"), Word("at"), Num(5), Num(29),
     Iso(2020, 1, 1), Iso(2025, 13, 5),
     Pair(5, "/", 3), Pair(29, "-", 2), Pair(3, "/", 15), Pair(13, "/", 45)}

TimeVocab ==
    {Clock(7, 30, "pm"), Clock(13, 30, "pm"), Clock(25, 0, ""), Clock(24, 0, ""),
     Clock(12, 75, ""), Clock(12, 0, "am"), Clock(20, 30, ""),
     Hour(8, "pm"), Hour(30, "pm"), Hour(12, "pm"),
     Word("PM"), Word("am"), Num(9), Num(12),
     Iso(2025, 3, 10), Pair(5, "/", 3)}

\* A run of 4301 digits: longer than int() converts.
HugeNum == [k |-> "num", s |-> "", a |-> 0, b |-> 4301, c |-> 0]

PartyVocab ==
    {Word("For"), Word("People"), Word("party"), Word("of"), Word("table"),
     Word("pm"), Num(0), Num(1), Num(4), Num(8), Num(20), Num(21), HugeNum,
     Hour(8, "pm"), Clock(7, 30, ""), Pair(5, "/", 3)}

\* The words of the four structured party-size phrases and numbers in and
\* out of 1..20.
PartyOrderVocab ==
    {Word("for"), Word("people"), Word("party"), Word("of"), Word("table"),
     Num(4), Num(12), Num(21), Pair(5, "/", 3)}

MixedVocab ==
    {Word("tonight"), Word("Friday"), Word("for"), Word("people"), Word("at"),
     Word("Prozdor"),
     Num(4), Num(25), Hour(8, "pm"), Clock(7, 30, "pm"), Iso(2025, 3, 15),
     Pair(5, "/", 3)}

NameVocab ==
    {Word("at"), Word("At"), Word("in"), Word("on"), Word("a"), Word("the"),
     Word("table"), Word("tonight"), Word("Book"), Word("Prozdor"),
     Word("Taizu"), Word("Bar"), Word("One"), Word("jerusalem"),
     Num(2), Hour(8, "pm"), Clock(7, 30, "")}

\* The words of an "at" phrase and an "in" phrase, noise words in both
\* cases, and names; Seattle contains the noise words seat and at.
NameLongVocab ==
    {Word("at"), Word("in"), Word("the"), Word("The"), Word("table"),
     Word("tonight"), Word("Prozdor"), Word("Seattle"), Num(2)}

InitWith(V, R) ==
    /\ text \in Texts(V)
    /\ now \in R
    /\ wall = Instant(2026, 1, 1, 0, 0)
    /\ req = NoReq
    /\ pc = "call"
    /\ calls = <<>>
    /\ FlowIdle /\ ThreadsIdle /\ ServerIdle

Spec == InitWith(MixedVocab, RefInstants) /\ [][Next]_vars

SpecDate == InitWith(DateVocab, RefInstants) /\ [][Next]_vars

SpecYearless == InitWith(YearlessVocab, RefInstants) /\ [][Next]_vars

SpecTime == InitWith(TimeVocab, {Instant(2025, 3, 5, 12, 0)}) /\ [][Next]_vars

SpecParty == InitWith(PartyVocab, {Instant(2025, 3, 5, 12, 0)}) /\ [][Next]_vars

InitPartyOrder ==
    /\ text \in UNION {[1..n -> PartyOrderVocab] : n \in 0..MaxLongLen}
    /\ now = Instant(2025, 3, 5, 12, 0)
    /\ wall = Instant(2026, 1, 1, 0, 0)
    /\ req = NoReq
    /\ pc = "call"
    /\ calls = <<>>
    /\ FlowIdle /\ ThreadsIdle /\ ServerIdle

SpecPartyOrder == InitPartyOrder /\ [][Next]_vars

InitNameLong ==
    /\ text \in UNION {[1..n -> NameLongVocab] : n \in 0..MaxLongLen}
    /\ now = Instant(2025, 3, 5, 12, 0)
    /\ wall = Instant(2026, 1, 1, 0, 0)
    /\ req = NoReq
    /\ pc = "call"
    /\ calls = <<>>
    /\ FlowIdle /\ ThreadsIdle /\ ServerIdle

SpecNameLong == InitNameLong /\ [][Next]_vars

\* The texts and the reference instants of a process that calls again; the
\* reference instant may be left out.
AgainTexts ==
    {<<>>, <<Word("tonight")>>, <<Word("Friday")>>, <<Word("march"), Num(5)>>}

AgainInstants == {NoNow, Instant(2025, 3, 5, 12, 0)}

WallInstants == {Instant(2026, 1, 1, 0, 0), Instant(2026, 1, 2, 23, 59)}

\* The caller's next request: bookaboo.reserve hands its text and its now
\* to the parser; the wall clock has not gone back since the last call.
CallAgain ==
    /\ pc = "returned"
    /\ Len(calls) < MaxCalls - 1
    /\ calls' = Append(calls, [text |-> text, now |-> now, wall |-> wall, req |-> req])
    /\ text' \in AgainTexts
    /\ now' \in AgainInstants
    /\ wall' \in {w \in WallInstants : w.d >= wall.d}
    /\ req' = NoReq
    /\ pc' = "call"
    /\ UNCHANGED <<rpc, loc, result, effects, store, threads, srv>>

NextAgain == ParseReservationRequest \/ CallAgain

InitAgain ==
    /\ text \in AgainTexts
    /\ now \in AgainInstants
    /\ wall \in WallInstants
    /\ req = NoReq
    /\ pc = "call"
    /\ calls = <<>>
    /\ FlowIdle /\ ThreadsIdle /\ ServerIdle

SpecAgain == InitAgain /\ [][NextAgain]_vars

SpecName == InitWith(NameVocab, {Instant(2025, 3, 5, 12, 0)}) /\ [][Next]_vars

----------------------------------------------------------------------------
(* The orchestrator: src/bookaboo.py, with the pure parts of                *)
(* src/ontopo_client.py and src/calendar_integration.py that it calls.      *)
(* A string the code slices or parses is a sequence of one-character        *)
(* strings; a message is a sequence of its pieces, empty when every piece   *)
(* is; an Optional value is a sequence of no or one element.                *)

\* s.replace(ch, "")
Remove(s, ch) == SelectSeq(s, LAMBDA c : c # ch)

\* s[:2] and s[2:]
Head2(s) == SubSeq(s, 1, IF Len(s) < 2 THEN Len(s) ELSE 2)

Tail2(s) == SubSeq(s, 3, Len(s))

IsDigit(ch) == ch \in {"0", "1", "2", "3", "4", "5", "6", "7", "8", "9"}

\* int(s) raises ValueError unless s is a run of digits (the strings here
\* carry no sign, no blank and no underscore).
IntParses(s) == s # <<>> /\ \A i \in 1..Len(s) : IsDigit(s[i])

RECURSIVE IntOf(_)
IntOf(s) ==
    IF s = <<>> THEN 0
    ELSE 10 * IntOf(SubSeq(s, 1, Len(s) - 1))
         + (CHOOSE n \in 0..9 : DigitChar(n) = s[Len(s)])

Abs(n) == IF n < 0 THEN 0 - n ELSE n

\* The accessors of ParsedRequest: what the method returns and what it
\* leaves of the record it was called on.
date_yyyymmdd(self) ==
    [val  |-> IF self.date = None THEN <<>>
              ELSE Str(self.date.y) \o Format02d(self.date.m) \o Format02d(self.date.d),
     self |-> self]

\* The mutant of time_hhmm that strips the colon in place.
time_hhmmInPlace(self) ==
    [val  |-> Remove(self.time_str, ":"),
     self |-> [self EXCEPT !.time_str = Remove(self.time_str, ":")]]

time_hhmm(self) == [val |-> Remove(self.time_str, ":"), self |-> self]

DayNames ==
    <<"Monday", "Tuesday", "Wednesday", "Thursday", "Friday", "Saturday", "Sunday">>

MonthNames ==
    <<"January", "February", "March", "April", "May", "June", "July",
      "August", "September", "October", "November", "December">>

\* strftime("%A, %B %-d")
display_date(self) ==
    [val  |-> IF self.date = None THEN <<>>
              ELSE <<DayNames[Weekday(self.date) + 1], ", ",
                     MonthNames[self.date.m], " ">> \o Str(self.date.d),
     self |-> self]

\* OntopoClient.parse_availability_response. The response is read under its
\* first spelling of each key; a slot that is not an object raises
\* AttributeError at s.get.
parse_availability_response(data) ==
    IF ~data.objects /\ data.slots # <<>>
    THEN [kind |-> "raise", val |-> "AttributeError"]
    ELSE [kind |-> "return",
          val  |-> [available    |-> data.slots # <<>> \/ data.available,
                    slots        |-> [i \in 1..Len(data.slots) |->
                                         [time    |-> data.slots[i].time,
                                          slot_id |-> data.slots[i].id]],
                    waiting_list |-> data.waiting_list,
                    phone_needed |-> data.phone_needed,
                    phone_number |-> data.phone_number]]

\* slot.get("time", "0000")
SlotTime(slot) ==
    IF "time" \in DOMAIN slot THEN slot.time ELSE <<"0", "0", "0", "0">>

\* The mutant of time_distance whose unparseable slots are at distance 0.
time_distanceZeroOnError(slot, preferred_time) ==
    LET t == Remove(SlotTime(slot), ":")
    IN  IF /\ IntParses(Head2(t)) /\ IntParses(Tail2(t))
           /\ IntParses(Head2(preferred_time)) /\ IntParses(Tail2(preferred_time))
        THEN Abs((IntOf(Head2(t)) * 60 + IntOf(Tail2(t)))
                 - (IntOf(Head2(preferred_time)) * 60 + IntOf(Tail2(preferred_time))))
        ELSE 0

\* time_distance, the key of pick_best_slot.
time_distance(slot, preferred_time) ==
    LET t == Remove(SlotTime(slot), ":")
    IN  IF /\ IntParses(Head2(t)) /\ IntParses(Tail2(t))
           /\ IntParses(Head2(preferred_time)) /\ IntParses(Tail2(preferred_time))
        THEN Abs((IntOf(Head2(t)) * 60 + IntOf(Tail2(t)))
                 - (IntOf(Head2(preferred_time)) * 60 + IntOf(Tail2(preferred_time))))
        ELSE 9999

\* min(slots, key=...): the first slot of the smallest key.
MinByKey(slots, preferred_time) ==
    LET best == Min({time_distance(slots[i], preferred_time) : i \in 1..Len(slots)})
    IN  slots[Min({i \in 1..Len(slots) : time_distance(slots[i], preferred_time) = best})]

\* OntopoClient.pick_best_slot: no slot, or the chosen one.
pick_best_slot(slots, preferred_time) ==
    IF slots = <<>> THEN <<>>
    ELSE IF Len(slots) = 1 THEN <<slots[1]>>
    ELSE <<MinByKey(slots, preferred_time)>>

\* OntopoClient.build_checkout_url: the parameters the URL carries; slot_id
\* only when it is not empty.
build_checkout_url(venue_id, date, time, party_size, slot_id) ==
    [venue_id |-> venue_id, date |-> date, time |-> time,
     party_size |-> party_size, slot_id |-> slot_id]

\* datetime.fromisoformat(f"{dt_str}T{hhmm}:00") accepts HH:MM with
\* HH in 00..23 and MM in 00..59, and raises ValueError for the rest.
FromIsoformatRaises(hhmm) ==
    ~ /\ Len(hhmm) = 5
      /\ hhmm[3] = ":"
      /\ \A i \in {1, 2, 4, 5} : IsDigit(hhmm[i])
      /\ IntOf(SubSeq(hhmm, 1, 2)) <= 23
      /\ IntOf(SubSeq(hhmm, 4, 5)) <= 59

\* generate_google_calendar_url: the start the URL carries.
generate_google_calendar_url(restaurant_name, date, hhmm) ==
    IF FromIsoformatRaises(hhmm)
    THEN [kind |-> "raise", val |-> "ValueError"]
    ELSE [kind |-> "return",
          val  |-> [text |-> restaurant_name, date |-> date, start |-> hhmm]]

\* build_event
build_event(restaurant_name, date, hhmm, party_size, checkout_url) ==
    IF FromIsoformatRaises(hhmm)
    THEN [kind |-> "raise", val |-> "ValueError"]
    ELSE [kind |-> "return",
          val  |-> [restaurant |-> restaurant_name, date |-> date,
                    start |-> hhmm, party_size |-> party_size,
                    checkout_url |-> checkout_url]]

\* save_event either appends the event, or raises OSError: before the file
\* is opened (the store is as it was), while it is written (the file no
\* longer parses and load_events reads no event from it), or at chmod (the
\* event is in the store).
SaveOutcomes(events, event) ==
    {[raised |-> FALSE, store |-> Append(events, event)],
     [raised |-> TRUE,  store |-> events],
     [raised |-> TRUE,  store |-> <<>>],
     [raised |-> TRUE,  store |-> Append(events, event)]}

\* BookingResult with the defaults of its dataclass.
BookingResult ==
    [success |-> FALSE, restaurant_name |-> <<>>, restaurant_address |-> "",
     date |-> <<>>, display_date |-> <<>>, time |-> <<>>, party_size |-> 2,
     checkout_url |-> <<>>, area |-> "", available_slots |-> <<>>,
     waiting_list |-> FALSE, phone_needed |-> FALSE, phone_number |-> "",
     calendar_url |-> <<>>, error |-> <<>>]

\* The local variables of reserve() before any is assigned.
NoLoc ==
    [date_yyyymmdd |-> <<>>, time_hhmm_colon |-> <<>>, time_hhmm_no_colon |-> <<>>,
     party_size |-> 0, display_date |-> <<>>,
     venues |-> <<>>, venue_id |-> "", restaurant_name |-> <<>>,
     restaurant_address |-> "", area |-> "",
     avail_raw |-> <<>>,
     avail |-> [available |-> FALSE, slots |-> <<>>, waiting_list |-> FALSE,
                phone_needed |-> FALSE, phone_number |-> ""],
     slot_time_display |-> <<>>, checkout_url |-> <<>>, calendar_url |-> <<>>,
     event |-> <<>>]

\* The result every return after the request is parsed starts from.
Parsed(l) ==
    [BookingResult EXCEPT !.date = l.date_yyyymmdd,
                          !.display_date = l.display_date,
                          !.time = l.time_hhmm_colon,
                          !.party_size = l.party_size]

\* The result every return after the venue is selected starts from.
AtVenue(l) ==
    [Parsed(l) EXCEPT !.restaurant_name = l.restaurant_name,
                      !.restaurant_address = l.restaurant_address]

\* A return before the client is opened.
ReturnEarly(res) ==
    /\ result' = res
    /\ rpc' = "done"
    /\ UNCHANGED <<loc, effects, store>>

\* A return, or an exception, that leaves the async with block: the client
\* is closed on the way out.
LeaveClient(to, res, done) ==
    /\ result' = res
    /\ rpc' = to
    /\ effects' = effects \o done \o <<"close">>
    /\ UNCHANGED <<loc, store>>

\* bookaboo.py line 47: the request is parsed; an exception of the parser
\* leaves reserve().
ReserveParse ==
    /\ rpc = "start"
    /\ pc = "call"
    /\ LET r == parse_reservation_request(text, now, wall)
       IN  /\ req' = r.val
           /\ pc' = IF r.kind = "raise" THEN "raised" ELSE "returned"
           /\ rpc' = IF r.kind = "raise" THEN "escaped" ELSE "parsed"
    /\ UNCHANGED <<text, now, wall, calls, loc, result, effects, store, threads, srv>>

\* The mutant of FirstMissing that checks the date before the name.
FirstMissingDateFirst(r) ==
    IF r.date = None THEN "date"
    ELSE IF r.restaurant_name = <<>> THEN "restaurant name"
    ELSE ""

\* Lines 49 and 55: what the first failing check misses, "" when none does.
FirstMissing(r) ==
    IF r.restaurant_name = <<>> THEN "restaurant name"
    ELSE IF r.date = None THEN "date"
    ELSE ""

\* Lines 49-66: the two checks, then the values derived from the record.
ReserveValidate ==
    /\ rpc = "parsed"
    /\ LET missing == FirstMissing(req)
       IN  IF missing = "restaurant name"
           THEN /\ ReturnEarly([BookingResult EXCEPT
                       !.error = <<"Could not determine ", missing, " from request.">>])
                /\ UNCHANGED req
           ELSE IF missing = "date"
           THEN /\ ReturnEarly([BookingResult EXCEPT
                       !.restaurant_name = req.restaurant_name,
                       !.error = <<"Could not determine ", missing, " from request.">>])
                /\ UNCHANGED req
           ELSE LET d == date_yyyymmdd(req)
                    t == time_hhmm(d.self)
                    s == display_date(t.self)
                IN  /\ loc' = [loc EXCEPT !.date_yyyymmdd = d.val,
                                          !.time_hhmm_colon = d.self.time_str,
                                          !.time_hhmm_no_colon = t.val,
                                          !.party_size = t.self.party_size,
                                          !.display_date = s.val]
                    /\ req' = s.self
                    /\ rpc' = "open"
                    /\ UNCHANGED <<result, effects, store>>
    /\ UNCHANGED <<text, now, wall, pc, calls, threads, srv>>

\* Line 73: async with OntopoClient() as client.
OpenClient ==
    /\ rpc = "open"
    /\ effects' = Append(effects, "open")
    /\ rpc' = "search"
    /\ UNCHANGED <<parserVars, loc, result, store, threads, srv>>

Venue(id, name, address) ==
    [object |-> TRUE, id |-> id, name |-> name, address |-> address, area |-> "Jaffa"]

\* An entry of the venue list that is not an object.
NotAnObject == [Venue("", <<>>, "") EXCEPT !.object = FALSE]

\* What the search can answer: no venue, venues with or without an id or a
\* name, of which only the first counts.
VenueLists ==
    {<<>>,
     <<Venue("v1", <<"Prozdor", "TLV">>, "1 Main St")>>,
     <<Venue("v2", <<>>, "")>>,
     <<Venue("", <<"Prozdor">>, "1 Main St")>>,
     <<Venue("", <<"Prozdor">>, "1 Main St"), Venue("v1", <<"Prozdor", "TLV">>, "1 Main St")>>,
     <<NotAnObject>>}

\* str(exc) of an exception of the API.
Messages == {"", "timeout"}

\* The mutant of Failed that reports the exception's own text only.
FailedBare(what, exc) == <<exc>>

\* f"Venue search failed: {exc}", f"Availability check failed: {exc}"
Failed(what, exc) == <<what, exc>>

\* Lines 75-98: the search raises, or answers a list.
SearchVenues ==
    /\ rpc = "search"
    /\ \/ \E msg \in Messages :
            LeaveClient("done",
                [Parsed(loc) EXCEPT !.restaurant_name = req.restaurant_name,
                                    !.error = Failed("Venue search failed: ", msg)],
                <<"search">>)
       \/ \E venues \in VenueLists :
            IF venues = <<>>
            THEN LeaveClient("done",
                    [Parsed(loc) EXCEPT !.restaurant_name = req.restaurant_name,
                                        !.error = <<"No venues found for '">>
                                                  \o req.restaurant_name \o <<"'.">>],
                    <<"search">>)
            ELSE /\ rpc' = "select"
                 /\ loc' = [loc EXCEPT !.venues = venues]
                 /\ effects' = Append(effects, "search")
                 /\ UNCHANGED <<result, store>>
    /\ UNCHANGED <<parserVars, threads, srv>>

\* Lines 100-131: venues[0] and its fields; venue.get on an entry that is
\* not an object raises.
SelectVenue ==
    /\ rpc = "select"
    /\ IF ~loc.venues[1].object
       THEN LeaveClient("escaped", result, <<>>)
       ELSE LET venue == loc.venues[1]
                l == [loc EXCEPT !.venue_id = venue.id,
                                 !.restaurant_name =
                                     IF venue.name # <<>> THEN venue.name
                                     ELSE req.restaurant_name,
                                 !.restaurant_address = venue.address,
                                 !.area = venue.area]
            IN  IF l.venue_id = ""
                THEN LeaveClient("done",
                        [AtVenue(l) EXCEPT !.error =
                            <<"Could not determine venue ID from search results.">>],
                        <<>>)
                ELSE /\ loc' = l
                     /\ rpc' = "availability"
                     /\ UNCHANGED <<result, effects, store>>
    /\ UNCHANGED <<parserVars, threads, srv>>

RawSlot(time, id) == [time |-> time, id |-> id]

\* Slot times the API can send: HHMM, HH:MM, no time at all, text that is
\* not a time, an hour no day has, and digits that are no time of day.
RawSlots ==
    {RawSlot(<<"1", "9", "3", "0">>, "s1"),
     RawSlot(<<"2", "0", "3", "0">>, "s2"),
     RawSlot(<<"1", "9", ":", "0", "0">>, ""),
     RawSlot(<<>>, "s4"),
     RawSlot(<<"7", "p", "m">>, "s5"),
     RawSlot(<<"2", "5", "0", "0">>, "s6")}

SlotLists == UNION {[1..n -> RawSlots] : n \in 0..MaxSlots}

\* The availability responses: the slots, or entries that are not objects,
\* with every combination of the three flags.
Responses ==
    [objects : BOOLEAN, slots : SlotLists, available : BOOLEAN,
     waiting_list : BOOLEAN, phone_needed : BOOLEAN,
     phone_number : {"", "03-5551234"}]

\* Lines 134-154: the check raises, or its response is normalised (outside
\* the try).
CheckAvailability ==
    /\ rpc = "availability"
    /\ \/ \E msg \in Messages :
            LeaveClient("done",
                [AtVenue(loc) EXCEPT !.error = Failed("Availability check failed: ", msg)],
                <<"availability">>)
       \/ \E data \in Responses :
            /\ data.objects \/ (data.slots # <<>> /\ ~data.available /\ ~data.waiting_list
                                /\ ~data.phone_needed /\ data.phone_number = "")
            /\ LET avail == parse_availability_response(data)
               IN  IF avail.kind = "raise"
                   THEN /\ loc' = [loc EXCEPT !.avail_raw = <<data>>]
                        /\ rpc' = "escaped"
                        /\ effects' = effects \o <<"availability", "close">>
                        /\ UNCHANGED <<result, store>>
                   ELSE /\ loc' = [loc EXCEPT !.avail_raw = <<data>>,
                                              !.avail = avail.val]
                        /\ rpc' = "classify"
                        /\ effects' = Append(effects, "availability")
                        /\ UNCHANGED <<result, store>>
    /\ UNCHANGED <<parserVars, threads, srv>>

\* Lines 157-211: phone needed, then waiting list, then no availability.
Classify ==
    /\ rpc = "classify"
    /\ LET avail == loc.avail
           url == <<build_checkout_url(loc.venue_id, loc.date_yyyymmdd,
                                       loc.time_hhmm_no_colon, loc.party_size, "")>>
       IN  IF avail.phone_needed
           THEN LeaveClient("done",
                    [AtVenue(loc) EXCEPT !.success = TRUE,
                                         !.checkout_url = url,
                                         !.area = loc.area,
                                         !.available_slots = avail.slots,
                                         !.waiting_list = FALSE,
                                         !.phone_needed = TRUE,
                                         !.phone_number = avail.phone_number],
                    <<"checkout">>)
           ELSE IF avail.waiting_list /\ ~avail.available
           THEN LeaveClient("done",
                    [AtVenue(loc) EXCEPT !.success = TRUE,
                                         !.checkout_url = url,
                                         !.area = loc.area,
                                         !.available_slots = <<>>,
                                         !.waiting_list = TRUE],
                    <<"checkout">>)
           ELSE IF ~avail.available /\ avail.slots = <<>>
           THEN LeaveClient("done",
                    [AtVenue(loc) EXCEPT !.error =
                        <<"No availability at ">> \o loc.restaurant_name \o <<" on ">>
                        \o loc.display_date \o <<" at ">> \o loc.time_hhmm_colon \o <<".">>],
                    <<>>)
           ELSE /\ rpc' = "slot"
                /\ UNCHANGED <<loc, result, effects, store>>
    /\ UNCHANGED <<parserVars, threads, srv>>

\* Lines 214-227: the best slot, its time for display, the checkout URL.
SelectSlot ==
    /\ rpc = "slot"
    /\ LET best_slot == pick_best_slot(loc.avail.slots, loc.time_hhmm_no_colon)
           slot_time == IF best_slot # <<>> THEN best_slot[1].time ELSE loc.time_hhmm_no_colon
           slot_id == IF best_slot # <<>> THEN best_slot[1].slot_id ELSE ""
           slot_time_display ==
               IF \E i \in 1..Len(slot_time) : slot_time[i] = ":" THEN slot_time
               ELSE Head2(slot_time) \o <<":">> \o Tail2(slot_time)
       IN  loc' = [loc EXCEPT
                     !.slot_time_display = slot_time_display,
                     !.checkout_url =
                         <<build_checkout_url(loc.venue_id, loc.date_yyyymmdd,
                                              Remove(slot_time, ":"),
                                              loc.party_size, slot_id)>>]
    /\ rpc' = "calendar"
    /\ effects' = Append(effects, "checkout")
    /\ UNCHANGED <<parserVars, result, store, threads, srv>>

\* Lines 230-245: the calendar URL and the event; a display time that is
\* not HH:MM raises ValueError, which nothing catches.
CalendarIntegration ==
    /\ rpc = "calendar"
    /\ LET url == generate_google_calendar_url(loc.restaurant_name, loc.date_yyyymmdd,
                                               loc.slot_time_display)
           event == build_event(loc.restaurant_name, loc.date_yyyymmdd,
                                loc.slot_time_display, loc.party_size, loc.checkout_url)
       IN  IF url.kind = "raise" \/ event.kind = "raise"
           THEN LeaveClient("escaped", result, <<>>)
           ELSE /\ loc' = [loc EXCEPT !.calendar_url = <<url.val>>, !.event = <<event.val>>]
                /\ rpc' = "save"
                /\ effects' = Append(effects, "calendar")
                /\ UNCHANGED <<result, store>>
    /\ UNCHANGED <<parserVars, threads, srv>>

\* The mutant of AfterSave in which the OSError leaves reserve().
AfterSaveUncaught(raised) == IF raised THEN "escaped" ELSE "return"

\* Lines 248-249: except OSError logs a warning, and the flow goes on.
AfterSave(raised) == "return"

\* Lines 246-249: the event is saved; an OSError is logged and dropped.
SaveEvent ==
    /\ rpc = "save"
    /\ \E out \in SaveOutcomes(store, loc.event[1]) :
          /\ store' = out.store
          /\ effects' = effects \o <<"save">>
                         \o (IF out.raised THEN <<"warning">> ELSE <<>>)
          /\ rpc' = AfterSave(out.raised)
    /\ UNCHANGED <<parserVars, loc, result, threads, srv>>

\* Lines 251-265: the booking is returned.
ReturnBooked ==
    /\ rpc = "return"
    /\ LeaveClient("done",
            [AtVenue(loc) EXCEPT !.success = TRUE,
                                 !.time = loc.slot_time_display,
                                 !.checkout_url = loc.checkout_url,
                                 !.area = loc.area,
                                 !.available_slots = loc.avail.slots,
                                 !.waiting_list = loc.avail.waiting_list,
                                 !.phone_needed = FALSE,
                                 !.calendar_url = loc.calendar_url],
            <<>>)
    /\ UNCHANGED <<parserVars, threads, srv>>

NextReserve ==
    \/ ReserveParse
    \/ ReserveValidate
    \/ OpenClient
    \/ SearchVenues
    \/ SelectVenue
    \/ CheckAvailability
    \/ Classify
    \/ SelectSlot
    \/ CalendarIntegration
    \/ SaveEvent
    \/ ReturnBooked

\* The requests of the flow: a full one, one at another time and day, one
\* without a name, one without a date, the empty one, and one whose party
\* size the parser cannot convert.
FlowTexts ==
    {<<Word("book"), Num(2), Word("tonight"), Hour(8, "pm"), Word("at"), Word("Prozdor")>>,
     <<Word("Friday"), Clock(7, 30, "pm"), Word("at"), Word("Taizu")>>,
     <<Word("tonight"), Hour(8, "pm")>>,
     <<Word("at"), Word("Prozdor")>>,
     <<>>,
     <<Word("for"), HugeNum, Word("at"), Word("Prozdor")>>}

\* The events the store holds before the call.
Stores == {<<>>, <<[restaurant |-> <<"Taizu">>, date |-> <<>>, start |-> <<>>,
                    party_size |-> 2, checkout_url |-> <<>>]>>}

InitReserve ==
    /\ text \in FlowTexts
    /\ now = Instant(2025, 3, 5, 12, 0)
    /\ wall = Instant(2026, 1, 1, 0, 0)
    /\ req = NoReq
    /\ pc = "call"
    /\ calls = <<>>
    /\ rpc = "start"
    /\ loc = NoLoc
    /\ result = BookingResult
    /\ effects = <<>>
    /\ store \in Stores
    /\ ThreadsIdle /\ ServerIdle

SpecReserve == InitReserve /\ [][NextReserve]_vars

----------------------------------------------------------------------------
(* Concurrent invocations of parse_reservation_request. An invocation has   *)
(* its arguments and its position; the ParsedRequest it constructs is an    *)
(* object of the heap, and its statements (nlp_parser.py lines 301-311)     *)
(* are steps that the invocations take in any order.                        *)

\* ParsedRequest(raw=text): the defaults of the dataclass.
ParsedRequest(raw) ==
    [restaurant_name |-> <<>>, date |-> None, time_str |-> <<>>,
     party_size |-> 2, raw |-> raw]

Invocations == 1..MaxThreads

\* The mutant of Frame in which every invocation writes one shared record.
FrameShared(i) == 1

\* The object that invocation i's local name req is bound to: its own.
Frame(i) == i

\* Invocation i moves to position to, and the record of its frame becomes r.
ThreadStep(i, to, r) ==
    threads' = [threads EXCEPT !.args[i].pc = to, !.heap[Frame(i)] = r]

\* Line 301: req = ParsedRequest(raw=text)
ThreadConstruct(i) ==
    /\ threads.args[i].pc = "call"
    /\ ThreadStep(i, "date", ParsedRequest(threads.args[i].text))
    /\ UNCHANGED <<parserVars, flowVars, srv>>

\* Line 302: req.date = _parse_date(text, now)
ThreadDate(i) ==
    /\ threads.args[i].pc = "date"
    /\ LET d == _parse_date(threads.args[i].text, threads.args[i].now, wall)
           r == threads.heap[Frame(i)]
       IN  IF d.kind = "raise" THEN ThreadStep(i, "raised", r)
           ELSE ThreadStep(i, "time", [r EXCEPT !.date = d.val])
    /\ UNCHANGED <<parserVars, flowVars, srv>>

\* Line 303: req.time_str = _parse_time(text)
ThreadTime(i) ==
    /\ threads.args[i].pc = "time"
    /\ ThreadStep(i, "party",
          [threads.heap[Frame(i)] EXCEPT !.time_str = _parse_time(threads.args[i].text)])
    /\ UNCHANGED <<parserVars, flowVars, srv>>

\* Line 304: req.party_size = _parse_party_size(text)
ThreadParty(i) ==
    /\ threads.args[i].pc = "party"
    /\ LET p == _parse_party_size(threads.args[i].text)
           r == threads.heap[Frame(i)]
       IN  IF p.kind = "raise" THEN ThreadStep(i, "raised", r)
           ELSE ThreadStep(i, "name", [r EXCEPT !.party_size = p.val])
    /\ UNCHANGED <<parserVars, flowVars, srv>>

\* Line 305: req.restaurant_name = _parse_restaurant_name(text)
ThreadName(i) ==
    /\ threads.args[i].pc = "name"
    /\ ThreadStep(i, "default",
          [threads.heap[Frame(i)] EXCEPT
              !.restaurant_name = _parse_restaurant_name(threads.args[i].text)])
    /\ UNCHANGED <<parserVars, flowVars, srv>>

\* Lines 308-311: the default time, and the record is returned.
ThreadReturn(i) ==
    /\ threads.args[i].pc = "default"
    /\ LET r == [threads.heap[Frame(i)] EXCEPT !.time_str = DefaultTime(@)]
       IN  threads' = [threads EXCEPT !.args[i].pc = "returned",
                                      !.args[i].ret = r,
                                      !.heap[Frame(i)] = r]
    /\ UNCHANGED <<parserVars, flowVars, srv>>

NextThreads ==
    \E i \in Invocations :
        \/ ThreadConstruct(i)
        \/ ThreadDate(i)
        \/ ThreadTime(i)
        \/ ThreadParty(i)
        \/ ThreadName(i)
        \/ ThreadReturn(i)

\* Requests that differ in every field, one of them with a party size that
\* int() cannot convert.
ThreadTexts ==
    {<<Word("tonight"), Word("at"), Word("Prozdor")>>,
     <<Word("Friday"), Clock(7, 30, "pm"), Word("for"), Num(4)>>,
     <<Word("at"), Word("Taizu"), Word("for"), HugeNum>>}

ThreadInstants == {Instant(2025, 3, 5, 12, 0), Instant(2024, 2, 29, 8, 30)}

InitThreads ==
    /\ text = <<>> /\ now = NoNow /\ wall = Instant(2026, 1, 1, 0, 0)
    /\ req = NoReq /\ pc = "none" /\ calls = <<>>
    /\ FlowIdle /\ ServerIdle
    /\ threads \in [args : [Invocations -> [text : ThreadTexts, now : ThreadInstants,
                                           pc : {"call"}, ret : {NoReq}]],
                    heap : {[i \in Invocations |-> NoReq]}]

SpecThreads == InitThreads /\ [][NextThreads]_vars

----------------------------------------------------------------------------
(* pick_best_slot on its own: any list of slots, any preferred time.        *)

\* A slot as pick_best_slot receives it; one comes without a time.
Slot(time, id) == [time |-> time, slot_id |-> id]

SlotsToPick ==
    {Slot(<<"1", "9", "3", "0">>, "s1"),
     Slot(<<"2", "0", "3", "0">>, "s2"),
     Slot(<<"1", "9", ":", "0", "0">>, "s3"),
     Slot(<<>>, "s4"),
     Slot(<<"7", "p", "m">>, "s5"),
     Slot(<<"2", "5", "0", "0">>, "s6"),
     Slot(<<"9", "9", "9", "9", "9", "9">>, "s7"),
     [slot_id |-> "s8"]}

\* 20:00, 19:15, and a preferred time that is no time.
PreferredTimes ==
    {<<"2", "0", "0", "0">>, <<"1", "9", "1", "5">>, <<"8", "p", "m">>}

\* The call: pick_best_slot(slots, preferred_time).
PickBestSlot ==
    /\ rpc = "pick"
    /\ result' = pick_best_slot(loc.slots, loc.preferred_time)
    /\ rpc' = "picked"
    /\ UNCHANGED <<parserVars, loc, effects, store, threads, srv>>

NextSlots == PickBestSlot

InitSlots ==
    /\ text = <<>> /\ now = NoNow /\ wall = Instant(2026, 1, 1, 0, 0)
    /\ req = NoReq /\ pc = "none" /\ calls = <<>>
    /\ rpc = "pick"
    /\ loc \in [slots : UNION {[1..n -> SlotsToPick] : n \in 0..MaxSlots},
                preferred_time : PreferredTimes]
    /\ result = <<>> /\ effects = <<>> /\ store = <<>>
    /\ ThreadsIdle /\ ServerIdle

SpecSlots == InitSlots /\ [][NextSlots]_vars

----------------------------------------------------------------------------
(* The API server: src/api_server.py. An Optional string is a sequence of   *)
(* no or one string. A dependency of a route runs before its handler, and   *)
(* an HTTPException it raises is the response.                              *)

\* BOOKABOO_API_KEY: not set, set to the empty string, set to a key.
ApiKeys == {<<>>, <<"">>, <<"secret123">>}

\* X-API-Key: missing, the key, another key.
Headers == {<<>>, <<"secret123">>, <<"wrongkey">>}

Routes == {"/health", "/reserve", "/search", "/availability", "/reservations"}

\* The routes declared with dependencies=[Depends(_check_api_key)].
Guarded == {"/reserve", "/search", "/availability", "/reservations"}

\* The requests: a route, a header, and for /reserve and /search a text
\* that is blank or not.
Requests ==
    {r \in [route : Routes, api_key : Headers, blank : BOOLEAN] :
        r.blank => r.route \in {"/reserve", "/search"}}

NoRequest == [route |-> "", api_key |-> <<>>, blank |-> FALSE]

\* The mutant of _check_api_key that lets a request without a header pass.
_check_api_keyMissingPasses(configured, api_key) ==
    IF configured # <<>> /\ configured[1] # "" /\ api_key # <<>> /\ api_key # configured
    THEN 401 ELSE 0

\* _check_api_key: 401 when a key is configured (a non-empty string) and
\* the header is not that key; 0 when it returns.
_check_api_key(configured, api_key) ==
    IF configured # <<>> /\ configured[1] # "" /\ api_key # configured
    THEN 401 ELSE 0

\* The response is sent.
Answer(status, handler, ran) ==
    srv' = [srv EXCEPT !.stage = "answered", !.status = status,
                       !.handler = handler, !.ran = ran]

\* A request arrives.
Receive ==
    /\ srv.stage = "idle"
    /\ \E r \in Requests : srv' = [srv EXCEPT !.stage = "received", !.request = r]
    /\ UNCHANGED <<parserVars, flowVars, threads>>

\* The dependency of a guarded route.
CheckApiKey ==
    /\ srv.stage = "received"
    /\ srv.request.route \in Guarded
    /\ IF _check_api_key(srv.key, srv.request.api_key) = 401
       THEN Answer(401, "", <<>>)
       ELSE srv' = [srv EXCEPT !.stage = "authorized"]
    /\ UNCHANGED <<parserVars, flowVars, threads>>

\* GET /health: no dependency.
Health ==
    /\ srv.stage = "received"
    /\ srv.request.route = "/health"
    /\ Answer(200, "health", <<>>)
    /\ UNCHANGED <<parserVars, flowVars, threads>>

\* POST /reserve: 400 for a blank text, else the reservation flow.
Reserve ==
    /\ srv.stage = "authorized"
    /\ srv.request.route = "/reserve"
    /\ IF srv.request.blank THEN Answer(400, "reserve", <<>>)
       ELSE Answer(200, "reserve", <<"bookaboo.reserve">>)
    /\ UNCHANGED <<parserVars, flowVars, threads>>

\* POST /search: 400 for a blank query, else the venue search.
Search ==
    /\ srv.stage = "authorized"
    /\ srv.request.route = "/search"
    /\ IF srv.request.blank THEN Answer(400, "search", <<>>)
       ELSE Answer(200, "search", <<"bookaboo.search_restaurants">>)
    /\ UNCHANGED <<parserVars, flowVars, threads>>

\* POST /availability
Availability ==
    /\ srv.stage = "authorized"
    /\ srv.request.route = "/availability"
    /\ Answer(200, "availability", <<"bookaboo.check_availability">>)
    /\ UNCHANGED <<parserVars, flowVars, threads>>

\* GET /reservations: the store is read.
ListReservations ==
    /\ srv.stage = "authorized"
    /\ srv.request.route = "/reservations"
    /\ Answer(200, "list_reservations", <<"load_events">>)
    /\ UNCHANGED <<parserVars, flowVars, threads>>

\* The server waits for the next request.
NextRequest ==
    /\ srv.stage = "answered"
    /\ srv' = [srv EXCEPT !.stage = "idle", !.request = NoRequest, !.status = 0,
                          !.handler = "", !.ran = <<>>]
    /\ UNCHANGED <<parserVars, flowVars, threads>>

NextServer ==
    \/ Receive
    \/ CheckApiKey
    \/ Health
    \/ Reserve
    \/ Search
    \/ Availability
    \/ ListReservations
    \/ NextRequest

InitServer ==
    /\ text = <<>> /\ now = NoNow /\ wall = Instant(2026, 1, 1, 0, 0)
    /\ req = NoReq /\ pc = "none" /\ calls = <<>>
    /\ FlowIdle /\ ThreadsIdle
    /\ srv \in [key : ApiKeys, stage : {"idle"}, request : {NoRequest},
                status : {0}, handler : {""}, ran : {<<>>}]

SpecServer == InitServer /\ [][NextServer]_vars

----------------------------------------------------------------------------
(* The properties. What a text says is read off its tokens' spellings here, *)
(* not through the parser's own helpers.                                    *)

Today == IF now = NoNow THEN MkDate(wall.y, wall.m, wall.d) ELSE MkDate(now.y, now.m, now.d)

Returned == pc = "returned"

Says(words) == \E i \in 1..Len(text) : text[i].k = "word" /\ text[i].s \in words

TonightWords == {"tonight", "Tonight", "TONIGHT", "today", "Today", "TODAY"}

TomorrowWords == {"tomorrow", "Tomorrow", "TOMORROW"}

\* The number of days from date d1 to date d2.
DaysFromTo(d1, d2) == ToOrdinal(d2) - ToOrdinal(d1)

IsoTokens == {i \in 1..Len(text) : text[i].k = "iso"}

\* C1 as stated: a returned date is never before the reference date,
\* whichever rule produced it.
C1_DateNeverBeforeToday ==
    (Returned /\ req.date # None) => DaysFromTo(Today, req.date) >= 0

\* C1 as amended: a returned date is on or after the reference date unless it
\* is the literal date of the first ISO YYYY-MM-DD token of a text that has no
\* tonight, today or tomorrow; that date is returned as written, past or not.
C1_DateNeverBeforeTodayUnlessIso ==
    (Returned /\ req.date # None /\ DaysFromTo(Today, req.date) < 0) =>
        /\ ~Says(TonightWords \cup TomorrowWords)
        /\ IsoTokens # {}
        /\ LET tok == text[Min(IsoTokens)]
           IN  req.date = MkDate(tok.a, tok.b, tok.c)

\* A yearless phrase that lay behind the reference date came back in the
\* following year, in a text without an ISO date.
C1_Witness ==
    /\ Returned /\ req.date # None
    /\ IsoTokens = {}
    /\ req.date.y = Today.y + 1
    /\ DaysFromTo(Today, req.date) > 0

IsDigitChar(ch) == ch \in {"0", "1", "2", "3", "4", "5", "6", "7", "8", "9"}

DigitVal(ch) == CHOOSE n \in 0..9 : DigitChar(n) = ch

\* C2: the time_str of a returned record reads HH:MM, two digits each, with
\* HH in 00..23 and MM in 00..59, also when the pattern that matched had an
\* hour or a minute out of range.
C2_TimeStrIsValidHHMM ==
    Returned =>
        LET ts == req.time_str
        IN  /\ Len(ts) = 5
            /\ ts[3] = ":"
            /\ \A i \in {1, 2, 4, 5} : IsDigitChar(ts[i])
            /\ 10 * DigitVal(ts[1]) + DigitVal(ts[2]) <= 23
            /\ 10 * DigitVal(ts[4]) + DigitVal(ts[5]) <= 59

\* The text holds nothing but time phrases, each out of range (13:30pm,
\* 25:00, 12:75, 30pm), and the record carries the default 20:00.
C2_Witness ==
    /\ Returned
    /\ Len(text) >= 2
    /\ \A i \in 1..Len(text) :
          text[i] \in {Clock(13, 30, "pm"), Clock(25, 0, ""), Clock(12, 75, ""),
                       Hour(30, "pm")}
    /\ req.time_str = <<"2", "0", ":", "0", "0">>

ForWords == {"for", "For", "FOR"}

\* C3: the party_size of a returned record lies in 1..20; a number outside
\* 1..20 that a structured pattern captured is not returned.
C3_PartySizeInRange ==
    Returned => (req.party_size >= 1 /\ req.party_size <= 20)

\* "for 21" or "for 0" was captured, and the record carries
\* another number.
C3_Witness ==
    /\ Returned
    /\ \E i \in 1..(Len(text) - 1) :
          /\ text[i].k = "word" /\ text[i].s \in ForWords
          /\ text[i + 1] \in {Num(0), Num(21)}
          /\ req.party_size # text[i + 1].a
    /\ req.party_size \in 1..20

\* C4: parse_reservation_request never raises, whatever the text and the
\* reference instant.
C4_NeverRaises == pc # "raised"

\* The date half of C4, which the code keeps: in the texts of date phrases,
\* calendar-invalid ones among them (Feb 29 outside a leap year or rolled
\* out of one, 2025-13-05, 13/45), no call raises.
DateFragmentsNeverRaise == pc # "raised"

\* C5: a text that contains the word tonight or today, in any case, gets the
\* reference date, whatever other date phrases it contains.
C5_TonightIsToday ==
    (Returned /\ Says(TonightWords)) => req.date = Today

\* The text says tonight or today next to a weekday name, an ISO date or a
\* numeric pair, and the date is the reference date.
C5_Witness ==
    /\ Returned
    /\ Says(TonightWords)
    /\ \E i \in 1..Len(text) :
          text[i].k \in {"iso", "pair"} \/ (text[i].k = "word" /\ text[i].s = "Friday")
    /\ req.date = Today

\* C6 as stated: a text that contains the word tomorrow gets the reference
\* date plus one day.
C6_TomorrowIsNextDay ==
    (Returned /\ Says(TomorrowWords)) =>
        (req.date # None /\ DaysFromTo(Today, req.date) = 1)

\* C6 as amended: a text that contains the word tomorrow and neither tonight
\* nor today gets the reference date plus one day.
C6_TomorrowIsNextDayUnlessTonight ==
    (Returned /\ Says(TomorrowWords) /\ ~Says(TonightWords)) =>
        /\ req.date # None
        /\ ValidDate(req.date.y, req.date.m, req.date.d)
        /\ DaysFromTo(Today, req.date) = 1

\* tomorrow, said on New Year's Eve next to another date phrase, is January 1.
C6_Witness ==
    /\ Returned
    /\ Says(TomorrowWords) /\ ~Says(TonightWords)
    /\ Len(text) >= 2
    /\ Today = MkDate(2023, 12, 31)
    /\ req.date = MkDate(2024, 1, 1)

\* The weekday a word names (Monday is 0), or -1.
WeekdayOfWord(s) ==
    CASE s \in {"monday", "Monday", "mon", "Mon"} -> 0
      [] s \in {"tuesday", "Tuesday", "tue", "Tue", "tues", "Tues"} -> 1
      [] s \in {"wednesday", "Wednesday", "wed", "Wed"} -> 2
      [] s \in {"thursday", "Thursday", "thu", "Thu", "thur", "Thur", "thurs", "Thurs"} -> 3
      [] s \in {"friday", "Friday", "fri", "Fri"} -> 4
      [] s \in {"saturday", "Saturday", "sat", "Sat"} -> 5
      [] s \in {"sunday", "Sunday", "sun", "Sun"} -> 6
      [] OTHER -> -1

\* The weekdays the text names.
NamedWeekdays ==
    {WeekdayOfWord(text[i].s) : i \in {j \in 1..Len(text) : text[j].k = "word"}} \ {-1}

NextWords == {"next", "Next", "NEXT"}

\* The text without its words "next".
WithoutNext == SelectSeq(text, LAMBDA tok : ~(tok.k = "word" /\ tok.s \in NextWords))

\* C7: without tonight, today and tomorrow, a text that names the weekday W
\* gets the reference date + d, d = (W - reference weekday) mod 7 with 0
\* replaced by 7: the date falls on W, 1 to 7 days ahead, never today, and
\* "next W" gets the date of bare "W".
C7_WeekdayResolvesForward ==
    (Returned /\ ~Says(TonightWords \cup TomorrowWords) /\ NamedWeekdays # {}) =>
        /\ req.date # None
        /\ ValidDate(req.date.y, req.date.m, req.date.d)
        /\ DaysFromTo(Today, req.date) \in 1..7
        /\ Weekday(req.date) \in NamedWeekdays
        /\ \A W \in 0..6 :
              NamedWeekdays = {W} =>
                  LET d == (W - Weekday(Today)) % 7
                  IN  DaysFromTo(Today, req.date) = IF d = 0 THEN 7 ELSE d
        /\ req.date = _parse_date(WithoutNext, now, wall).val

\* On Wednesday 2025-03-05, "next wed" is Wednesday 2025-03-12.
C7_Witness ==
    /\ Returned
    /\ Today = MkDate(2025, 3, 5)
    /\ \E i \in 1..(Len(text) - 1) : text[i] = Word("next") /\ text[i + 1] = Word("wed")
    /\ NamedWeekdays = {2}
    /\ req.date = MkDate(2025, 3, 12)

\* The month a word names, or -1.
MonthOfWord(s) ==
    CASE s \in {"january", "January", "jan", "Jan"} -> 1
      [] s \in {"february", "February", "feb", "Feb"} -> 2
      [] s \in {"march", "March", "mar", "Mar"} -> 3
      [] s \in {"april", "April", "apr", "Apr"} -> 4
      [] s \in {"may", "May"} -> 5
      [] s \in {"june", "June", "jun", "Jun"} -> 6
      [] s \in {"july", "July", "jul", "Jul"} -> 7
      [] s \in {"august", "August", "aug", "Aug"} -> 8
      [] s \in {"september", "September", "sep", "Sep", "sept", "Sept"} -> 9
      [] s \in {"october", "October", "oct", "Oct"} -> 10
      [] s \in {"november", "November", "nov", "Nov"} -> 11
      [] s \in {"december", "December", "dec", "Dec"} -> 12
      [] OTHER -> -1

MonthWords == {i \in 1..Len(text) : text[i].k = "word" /\ MonthOfWord(text[i].s) >= 1}

PairTokens == {i \in 1..Len(text) : text[i].k = "pair"}

\* The text has no tonight, today, tomorrow and no weekday name.
NoRelativeDate == ~Says(TonightWords \cup TomorrowWords) /\ NamedWeekdays = {}

\* A written number of one or two digits.
IsDayNumber(tok) == tok.k = "num" /\ tok.b <= 2

\* C8: the date rules are tried in the order tonight/today, tomorrow, weekday
\* name, month name + day, ISO, numeric pair, and the first that yields a date
\* decides, wherever its phrase stands: a weekday name wins over an ISO date,
\* an ISO date wins over a pair and is taken literally, and with no match the
\* date is absent.
C8_FirstRuleInOrderDecides ==
    Returned =>
        LET r(name) == DateRule(name, text, Today)
        IN  /\ req.date =
                  IF r("tonight").kind = "return" THEN r("tonight").val
                  ELSE IF r("tomorrow").kind = "return" THEN r("tomorrow").val
                  ELSE IF r("weekday").kind = "return" THEN r("weekday").val
                  ELSE IF r("month").kind = "return" THEN r("month").val
                  ELSE IF r("iso").kind = "return" THEN r("iso").val
                  ELSE IF r("pair").kind = "return" THEN r("pair").val
                  ELSE None
            /\ (~Says(TonightWords \cup TomorrowWords) /\ NamedWeekdays # {}) =>
                  (req.date # None /\ Weekday(req.date) \in NamedWeekdays
                   /\ DaysFromTo(Today, req.date) \in 1..7)
            /\ (NoRelativeDate /\ MonthWords = {} /\ IsoTokens # {}) =>
                  LET tok == text[Min(IsoTokens)]
                  IN  ValidDate(tok.a, tok.b, tok.c) => req.date = MkDate(tok.a, tok.b, tok.c)
            /\ (NoRelativeDate /\ IsoTokens = {} /\ PairTokens = {} /\ MonthWords = {}) =>
                  req.date = None

\* A text with a weekday name, an ISO date that is a real day, and a numeric
\* pair, in any order: the date falls on the weekday, not on the ISO date.
C8_Witness ==
    /\ Returned
    /\ ~Says(TonightWords \cup TomorrowWords)
    /\ NamedWeekdays = {4}
    /\ \E i \in 1..Len(text) : text[i] = Iso(2025, 3, 15)
    /\ PairTokens # {}
    /\ Min(PairTokens) < Min(IsoTokens)
    /\ Weekday(req.date) = 4
    /\ req.date # MkDate(2025, 3, 15)

\* The day of the text's month phrase when the text has one month word, with
\* a written day right after it, or right before it and none after; else -1.
PhraseDay ==
    IF Cardinality(MonthWords) # 1 THEN -1
    ELSE LET i == Min(MonthWords)
         IN  IF i < Len(text) /\ IsDayNumber(text[i + 1]) THEN text[i + 1].a
             ELSE IF /\ i > 1 /\ IsDayNumber(text[i - 1])
                     /\ (i = Len(text) \/ text[i + 1].k \in {"word", "iso"})
                  THEN text[i - 1].a
                  ELSE -1

PhraseMonth == MonthOfWord(text[Min(MonthWords)].s)

\* C9: a "<Month> <day>" or "<day> <Month>" phrase is built in the reference
\* year and moved to the following year exactly when it is strictly before
\* the reference date; the reference date itself stays. (A 29 February that
\* would move into a year without one yields no date from this rule.)
C9_MonthDayRollsWhenStrictlyBefore ==
    (Returned /\ NoRelativeDate /\ PhraseDay >= 0
        /\ ValidDate(Today.y, PhraseMonth, PhraseDay)) =>
        LET inYear == MkDate(Today.y, PhraseMonth, PhraseDay)
            nextYear == MkDate(Today.y + 1, PhraseMonth, PhraseDay)
        IN  IF DaysFromTo(Today, inYear) >= 0 THEN req.date = inYear
            ELSE IF ValidDate(Today.y + 1, PhraseMonth, PhraseDay)
                 THEN req.date = nextYear
                 ELSE /\ req.date # inYear
                      /\ (IsoTokens = {} /\ PairTokens = {}) => req.date = None

\* On New Year's Eve 2023, "march 5" or "5 march" is 5 March 2024.
C9_Witness ==
    /\ Returned /\ NoRelativeDate
    /\ Today = MkDate(2023, 12, 31)
    /\ PhraseDay = 5 /\ PhraseMonth = 3
    /\ req.date = MkDate(2024, 3, 5)

\* (month, day) is a date the pair can stand for: in range, a real day of the
\* reference year and, when it lies behind the reference date, of the next.
PairReads(month, day) ==
    /\ 1 <= month /\ month <= 12 /\ 1 <= day /\ day <= 31
    /\ ValidDate(Today.y, month, day)
    /\ (DaysFromTo(Today, MkDate(Today.y, month, day)) >= 0
           \/ ValidDate(Today.y + 1, month, day))

\* The date (month, day) stands for: in the reference year, or in the next
\* when that precedes the reference date.
PairDate(month, day) ==
    IF DaysFromTo(Today, MkDate(Today.y, month, day)) >= 0
    THEN MkDate(Today.y, month, day)
    ELSE MkDate(Today.y + 1, month, day)

\* C10: with no earlier date rule matching, the first pair A/B or A-B reads
\* as (month B, day A) when that is a real calendar day, else as (month A,
\* day B) under the same test, else the date is absent; the date is in the
\* reference year, or in the next when it precedes the reference date.
C10_PairDayMonthFirst ==
    (Returned /\ NoRelativeDate /\ MonthWords = {} /\ IsoTokens = {} /\ PairTokens # {}) =>
        LET A == text[Min(PairTokens)].a
            B == text[Min(PairTokens)].b
        IN  req.date = IF PairReads(B, A) THEN PairDate(B, A)
                       ELSE IF PairReads(A, B) THEN PairDate(A, B)
                       ELSE None

\* On New Year's Eve 2023, "5/3" is 5 March 2024, not 3 May.
C10_Witness ==
    /\ Returned /\ NoRelativeDate /\ MonthWords = {} /\ IsoTokens = {}
    /\ PairTokens # {}
    /\ text[Min(PairTokens)] = Pair(5, "/", 3)
    /\ Today = MkDate(2023, 12, 31)
    /\ req.date = MkDate(2024, 3, 5)

\* The text without its ISO dates and its D/D, D-D pairs.
TimeText == SelectSeq(text, LAMBDA tok : tok.k \notin {"iso", "pair"})

AmWords == {"am", "Am", "AM"}

PmWords == {"pm", "Pm", "PM"}

\* The am or pm written with token i of T: attached to it, or as the next
\* word; "" when there is none.
SaidMeridiem(T, i) ==
    IF T[i].k \in {"clock", "hour"} /\ T[i].s # "" THEN T[i].s
    ELSE IF i < Len(T) /\ T[i + 1].k = "word" /\ T[i + 1].s \in AmWords THEN "am"
    ELSE IF i < Len(T) /\ T[i + 1].k = "word" /\ T[i + 1].s \in PmWords THEN "pm"
    ELSE ""

\* The colon times H:MM of T.
ColonTimes(T) == {i \in 1..Len(T) : T[i].k = "clock"}

\* The places of T where one or two digits stand right before am or pm: an
\* hour written 8pm, a number of at most two digits before the word, and
\* the minute digits of a colon time that carries am or pm.
BareHours(T) ==
    {i \in 1..Len(T) :
        \/ T[i].k = "hour"
        \/ T[i].k = "clock" /\ SaidMeridiem(T, i) # ""
        \/ T[i].k = "num" /\ T[i].b <= 2 /\ SaidMeridiem(T, i) # ""}

BareHourSaid(T, i) == IF T[i].k = "clock" THEN T[i].b ELSE T[i].a

\* pm adds 12 unless the hour is 12, am maps 12 to 0, else the hour is kept.
Converted(h, mer) ==
    CASE mer = "pm" /\ h # 12 -> h + 12
      [] mer = "am" /\ h = 12 -> 0
      [] OTHER -> h

HourOf(ts) == 10 * DigitVal(ts[1]) + DigitVal(ts[2])

MinuteOf(ts) == 10 * DigitVal(ts[4]) + DigitVal(ts[5])

TwentyHundred == <<"2", "0", ":", "0", "0">>

\* C11: the first colon time of the text, converted (pm adds 12 unless the
\* hour is 12, 12 am is 0, no meridiem keeps the hour), is the time wherever
\* it stands; when its converted hour exceeds 23 or its minute exceeds 59 it
\* is rejected and the first bare hour with am/pm, converted the same way,
\* is the time with minute 00 if its hour is at most 23; else 20:00.
C11_TimeConversion ==
    Returned =>
        LET T == TimeText
            C == ColonTimes(T)
            B == BareHours(T)
            ch == Converted(T[Min(C)].a, SaidMeridiem(T, Min(C)))
            bh == Converted(BareHourSaid(T, Min(B)), SaidMeridiem(T, Min(B)))
        IN  IF C # {} /\ ch <= 23 /\ T[Min(C)].b <= 59
            THEN HourOf(req.time_str) = ch /\ MinuteOf(req.time_str) = T[Min(C)].b
            ELSE IF B # {} /\ bh <= 23
            THEN HourOf(req.time_str) = bh /\ MinuteOf(req.time_str) = 0
            ELSE req.time_str = TwentyHundred

\* "8pm" stands before "7:30pm" and the colon time decided: 19:30.
C11_Witness ==
    /\ Returned
    /\ \E i, j \in 1..Len(text) :
          i < j /\ text[i] = Hour(8, "pm") /\ text[j] = Clock(7, 30, "pm")
    /\ \A i \in 1..Len(text) : text[i].k = "clock" => text[i] = Clock(7, 30, "pm")
    /\ req.time_str = <<"1", "9", ":", "3", "0">>

\* C12: a text without a colon time and without am or pm gets 20:00, and so
\* does a text whose only digits are those of ISO dates and of D/D, D-D
\* pairs, also when am or pm follows such a date.
C12_OnlyColonOrMeridiemIsTime ==
    Returned =>
        /\ ((\A i \in 1..Len(text) : text[i].k \notin {"clock", "hour"})
              /\ ~Says(AmWords \cup PmWords))
           => req.time_str = TwentyHundred
        /\ (\A i \in 1..Len(text) : text[i].k \in {"iso", "pair", "word"})
           => req.time_str = TwentyHundred

\* "5/3 PM" or "2025-03-10 am": a date followed by am or pm in a text with
\* no other digits, and the record carries 20:00.
C12_Witness ==
    /\ Returned
    /\ \A i \in 1..Len(text) : text[i].k \in {"iso", "pair", "word"}
    /\ \E i \in 1..(Len(text) - 1) :
          /\ text[i].k \in {"iso", "pair"}
          /\ text[i + 1].k = "word" /\ text[i + 1].s \in AmWords \cup PmWords
    /\ req.time_str = TwentyHundred

NounWords ==
    {"people", "People", "person", "persons", "guest", "guests", "pax", "seat",
     "seats", "diner", "diners"}

SaysAt(i, words) == i >= 1 /\ i <= Len(text) /\ text[i].k = "word" /\ text[i].s \in words

\* The number that token i begins with, -1 for a word.
NumberAtStart(i) ==
    IF i < 1 \/ i > Len(text) \/ text[i].k = "word" THEN -1 ELSE text[i].a

\* The number that token i ends with, -1 when it ends with a letter.
NumberAtEnd(i) ==
    CASE text[i].k = "num" -> text[i].a
      [] text[i].k = "iso" -> text[i].c
      [] text[i].k = "pair" -> text[i].b
      [] text[i].k = "clock" /\ text[i].s = "" -> text[i].b
      [] OTHER -> -1

\* The places where a phrase of structured rule p starts.
RulePhrases(p) ==
    CASE p = 1 -> {i \in 1..Len(text) : SaysAt(i, ForWords) /\ NumberAtStart(i + 1) >= 0}
      [] p = 2 -> {i \in 1..Len(text) : NumberAtEnd(i) >= 0 /\ SaysAt(i + 1, NounWords)}
      [] p = 3 -> {i \in 1..Len(text) :
                      /\ SaysAt(i, {"party", "Party"}) /\ SaysAt(i + 1, {"of", "Of"})
                      /\ NumberAtStart(i + 2) >= 0}
      [] p = 4 -> {i \in 1..Len(text) :
                      /\ SaysAt(i, {"table", "Table"}) /\ SaysAt(i + 1, ForWords)
                      /\ NumberAtStart(i + 2) >= 0}

\* The N of the first phrase of rule p in the text, -1 when there is none.
RuleNumber(p) ==
    IF RulePhrases(p) = {} THEN -1
    ELSE LET i == Min(RulePhrases(p))
         IN  CASE p = 1 -> NumberAtStart(i + 1)
               [] p = 2 -> NumberAtEnd(i)
               [] OTHER -> NumberAtStart(i + 2)

\* The single digits 2..9 of the text outside am/pm times: a one-digit
\* number that no am or pm follows, and a one-digit half of a D/D pair.
LoneDigits ==
    {v \in 2..9 : \E i \in 1..Len(text) :
        \/ /\ text[i].k = "num" /\ text[i].b = 1 /\ text[i].a = v
           /\ ~SaysAt(i + 1, AmWords \cup PmWords)
        \/ text[i].k = "pair" /\ text[i].a = v
        \/ /\ text[i].k = "pair" /\ text[i].b = v
           /\ ~SaysAt(i + 1, AmWords \cup PmWords)}

\* C13: the party size is the N of the first rule, in the order for N,
\* N noun, party of N, table for N, whose first phrase in the text has N in
\* 1..20, wherever the phrases stand; a rule whose phrase has N out of
\* range is passed over; when no structured rule is left the result is a
\* lone digit of the text, and 2 when there is none.
C13_FirstValidRuleDecides ==
    Returned =>
        LET valid == {p \in 1..4 : RuleNumber(p) >= 1 /\ RuleNumber(p) <= 20}
        IN  IF valid # {} THEN req.party_size = RuleNumber(Min(valid))
            ELSE IF LoneDigits # {} THEN req.party_size \in LoneDigits
            ELSE req.party_size = 2

\* "12 people for 4": the phrase of rule 2 stands first, rule 1 decides;
\* and "for 21 12 people": rule 1 is out of range, rule 2 decides.
C13_Witness ==
    /\ Returned
    /\ \/ /\ RuleNumber(1) = 4 /\ RuleNumber(2) = 12
          /\ Min(RulePhrases(2)) < Min(RulePhrases(1))
          /\ req.party_size = 4
       \/ /\ RuleNumber(1) = 21 /\ RuleNumber(2) = 12
          /\ req.party_size = 12

\* The first single digit 2..9 of token i that stands alone, -1 when it has
\* none: a one-digit number that no am or pm follows, or a one-digit half of
\* a D/D pair (the second half only when no am or pm follows).
LoneDigitSaid(i) ==
    CASE text[i].k = "num" /\ text[i].b = 1 /\ text[i].a \in 2..9
            /\ ~SaysAt(i + 1, AmWords \cup PmWords) -> text[i].a
      [] text[i].k = "pair" /\ text[i].a \in 2..9 -> text[i].a
      [] text[i].k = "pair" /\ text[i].b \in 2..9
            /\ ~SaysAt(i + 1, AmWords \cup PmWords) -> text[i].b
      [] OTHER -> -1

NoValidRule == \A p \in 1..4 : RuleNumber(p) < 1 \/ RuleNumber(p) > 20

\* C14: when no structured rule gives a value in 1..20, the party size is
\* the first digit 2..9 of the text that stands alone, and 2 when there is
\* none: a digit of a colon time, of a longer number, or before am/pm
\* (attached or as the next word) is never taken.
C14_LoneDigitStandsAlone ==
    (Returned /\ NoValidRule) =>
        LET L == {i \in 1..Len(text) : LoneDigitSaid(i) >= 2}
        IN  IF L = {} THEN req.party_size = 2
            ELSE req.party_size = LoneDigitSaid(Min(L))

\* The text holds "8pm" or "8 pm", and a colon time or a longer number, but
\* no digit that stands alone: the record carries 2.
C14_Witness ==
    /\ Returned /\ NoValidRule
    /\ \E i \in 1..Len(text) :
          \/ text[i] = Hour(8, "pm")
          \/ text[i] = Num(8) /\ SaysAt(i + 1, PmWords)
    /\ \E i \in 1..Len(text) : text[i] \in {Clock(7, 30, ""), Num(20), Num(21)}
    /\ req.party_size = 2

\* The numbers of the text that belong to no time phrase and to no date
\* phrase: written on their own, no am or pm after them, no month name next
\* to them.
OwnNumbers ==
    {text[i].a : i \in {j \in 1..Len(text) :
        /\ text[j].k = "num"
        /\ ~SaysAt(j + 1, AmWords \cup PmWords)
        /\ (j - 1) \notin MonthWords /\ (j + 1) \notin MonthWords}}

\* C15: the party size is never a number of the text's time phrase or date
\* phrase (the hour of 8pm or 7:30, a half of 5/3, the digits of an ISO
\* date, the day of March 5): it is the default 2 or a number that the text
\* writes on its own.
C15_PartySizeNotFromTimeOrDate ==
    Returned => (req.party_size = 2 \/ req.party_size \in OwnNumbers)

AtWords == {"at", "At", "AT"}

\* The spellings of the noise words: the table's own and, of those the
\* vocabularies use, the capitalised ones.
NoiseSpellings ==
    _NOISE_WORDS \cup {"At", "In", "The", "Book", "Tonight", "Today", "TOMORROW",
                       "Next", "Friday", "Wed", "PM", "For", "People"}

KeywordWords ==
    {"on", "On", "this", "This", "next", "Next", "tonight", "Tonight", "tomorrow",
     "Tomorrow"}

\* Tokens i+1..j are an "at <Name>" phrase as the text writes it: the word
\* at, then words that are no noise words, then the end of the text, a
\* digit, or one of the words on, this, next, tonight, tomorrow.
SaysAtName(i, j) ==
    /\ SaysAt(i, AtWords)
    /\ i < j /\ j <= Len(text)
    /\ \A x \in (i + 1)..j : text[x].k = "word" /\ text[x].s \notin NoiseSpellings
    /\ \/ j = Len(text)
       \/ text[j + 1].k # "word"
       \/ SaysAt(j + 1, KeywordWords)

\* C16: when the text holds an "at <Name>" phrase, the restaurant name is
\* the <Name> of the first such phrase, word for word in its spelling; an
\* "at" that a digit follows starts no phrase and is passed over.
C16_AtNameIsExact ==
    Returned =>
        LET P == {i \in 1..Len(text) : \E j \in 1..Len(text) : SaysAtName(i, j)}
        IN  P # {} =>
              LET i == Min(P)
                  j == Min({x \in 1..Len(text) : SaysAtName(i, x)})
              IN  req.restaurant_name = [x \in 1..(j - i) |-> text[i + x].s]

\* The words of the text that begin with a capital letter and are no noise
\* words, in the order of the text.
CapitalisedSaid ==
    SelectSeq([x \in 1..Len(text) |-> text[x].s],
              LAMBDA w : w \in {"Prozdor", "Seattle", "Taizu", "Bar", "One"})

\* C17: the name of a returned record is empty only when no strategy has a
\* non-empty name to give; a text with a capitalised word that is no noise
\* word gets a name.
C17_EmptyNameOnlyWhenNothingFound ==
    (Returned /\ CapitalisedSaid # <<>>) => req.restaurant_name # <<>>

C19_SameInputsSameRecord ==
    (Returned /\ now # NoNow) =>
        \A k \in 1..Len(calls) :
            (calls[k].text = text /\ calls[k].now = now) => calls[k].req = req

\* "tonight" was parsed with the same instant on two days of the wall
\* clock, with another call in between, and a date came back.
C19_Witness ==
    /\ Returned /\ now # NoNow
    /\ Len(calls) = 2
    /\ calls[1].text = text /\ calls[1].now = now /\ calls[1].wall # wall
    /\ calls[2].text # text
    /\ text = <<Word("tonight")>>
    /\ req.date = MkDate(now.y, now.m, now.d)

\* C20: the call on the empty text returns, and its record has an empty
\* restaurant name, no date, the time 20:00 and the party size 2, with and
\* without a reference instant.
C20_EmptyTextGivesDefaults ==
    (text = <<>> /\ pc # "call") =>
        /\ pc = "returned"
        /\ req.restaurant_name = <<>>
        /\ req.date = None
        /\ req.time_str = TwentyHundred
        /\ req.party_size = 2

\* The empty text was parsed without a reference instant.
C20_Witness == text = <<>> /\ now = NoNow /\ Returned /\ req.raw = <<>>

----------------------------------------------------------------------------
(* The orchestrator's claims. *)

\* reserve() has returned a result.
Done == rpc = "done"

\* What reserve() has done so far includes the operation op.
Did(op) == \E i \in 1..Len(effects) : effects[i] = op

\* C21: once parse_reservation_request has returned a record, no step of
\* reserve(), the three accessors included, changes its restaurant_name,
\* date, time_str, party_size or raw.
C21_RecordNeverChanges ==
    [][pc = "returned" =>
          /\ req'.restaurant_name = req.restaurant_name
          /\ req'.date = req.date
          /\ req'.time_str = req.time_str
          /\ req'.party_size = req.party_size
          /\ req'.raw = req.raw]_vars

\* A booking was returned: the accessors were called and every step of the
\* flow has run on a record with a name, a date and a time.
C21_Witness ==
    /\ Done /\ result.success /\ Did("save")
    /\ pc = "returned"
    /\ req.restaurant_name # <<>> /\ req.date # None
    /\ loc.time_hhmm_no_colon = Remove(req.time_str, ":")
    /\ loc.time_hhmm_no_colon # req.time_str

\* What invocation i returns when it runs alone on its text and its instant.
Alone(i) == parse_reservation_request(threads.args[i].text, threads.args[i].now, wall)

\* C22: under every interleaving of the invocations' statements, an
\* invocation that has returned holds the record it returns when run alone
\* on its own text and reference instant, and one that has raised raises
\* alone as well.
C22_ConcurrentAsAlone ==
    \A i \in DOMAIN threads.args :
        /\ threads.args[i].pc = "returned" =>
              Alone(i).kind = "return" /\ threads.args[i].ret = Alone(i).val
        /\ threads.args[i].pc = "raised" => Alone(i).kind = "raise"

\* Two invocations on different texts have both returned, each its own
\* record: one with a date, one with a time of its own.
C22_Witness ==
    /\ threads.args[1].pc = "returned" /\ threads.args[2].pc = "returned"
    /\ threads.args[1].text # threads.args[2].text
    /\ threads.args[1].ret # threads.args[2].ret
    /\ threads.args[1].ret.date # None /\ threads.args[2].ret.time_str # <<"2", "0", ":", "0", "0">>

\* The pieces of the result's error text include the word.
ErrorNames(word) == \E i \in 1..Len(result.error) : result.error[i] = word

\* Nothing was done to the outside: no client, no search, no availability
\* check, no checkout URL, no save.
NothingDone == effects = <<>> /\ store \in Stores

\* C23: past the two checks, a record without a name has ended reserve()
\* with a failure naming the restaurant name, whether or not it has a date,
\* and a record with a name and no date with a failure naming the date; in
\* both cases nothing was opened, searched, checked, built or saved.
C23_MissingFieldFailsEarly ==
    (pc = "returned" /\ rpc # "parsed") =>
        /\ req.restaurant_name = <<>> =>
              /\ Done /\ ~result.success
              /\ ErrorNames("restaurant name") /\ ~ErrorNames("date")
              /\ NothingDone
        /\ (req.restaurant_name # <<>> /\ req.date = None) =>
              /\ Done /\ ~result.success
              /\ ErrorNames("date") /\ ~ErrorNames("restaurant name")
              /\ NothingDone

\* The empty request: neither a name nor a date, and the failure names the
\* restaurant name.
C23_Witness ==
    /\ Done /\ pc = "returned"
    /\ req.restaurant_name = <<>> /\ req.date = None
    /\ ~result.success /\ ErrorNames("restaurant name")

\* reserve() has ended, with a result or with an exception.
Ended == rpc \in {"done", "escaped"}

\* The availability response that was fetched, as the API sent it.
Fetched == loc.avail_raw[1]

\* The response reports availability: slots, or the flag.
ReportsAvailability == Fetched.slots # <<>> \/ Fetched.available

\* C24: a call that fetched availability for a venue with an id has ended
\* with: phone needed -> success with phone_needed, the response's phone
\* number and waiting_list False, whatever else is reported; else waiting
\* list without availability -> success with waiting_list and no slots; else
\* no availability and no slots -> failure with a 'No availability' error;
\* else a booking that succeeds with a checkout URL and a calendar URL.
C24_ClassifiedInFixedOrder ==
    (Ended /\ loc.avail_raw # <<>>) =>
        /\ loc.venue_id # ""
        /\ Done
        /\ IF Fetched.phone_needed
           THEN /\ result.success /\ result.phone_needed
                /\ result.phone_number = Fetched.phone_number
                /\ ~result.waiting_list
           ELSE IF Fetched.waiting_list /\ ~ReportsAvailability
           THEN result.success /\ result.waiting_list /\ result.available_slots = <<>>
           ELSE IF ~ReportsAvailability
           THEN ~result.success /\ ErrorNames("No availability at ")
           ELSE /\ result.success
                /\ result.checkout_url # <<>> /\ result.calendar_url # <<>>

\* The classification of C24 holds of every call that returned a result:
\* only an exception that leaves reserve() breaks it.
ClassifiedWhenReturned ==
    (Done /\ loc.avail_raw # <<>>) =>
        /\ loc.venue_id # ""
        /\ IF Fetched.phone_needed
           THEN /\ result.success /\ result.phone_needed
                /\ result.phone_number = Fetched.phone_number
                /\ ~result.waiting_list
           ELSE IF Fetched.waiting_list /\ ~ReportsAvailability
           THEN result.success /\ result.waiting_list /\ result.available_slots = <<>>
           ELSE IF ~ReportsAvailability
           THEN ~result.success /\ ErrorNames("No availability at ")
           ELSE /\ result.success
                /\ result.checkout_url # <<>> /\ result.calendar_url # <<>>

\* C25: no exception leaves reserve(), whatever the API does; and a search
\* that answered no venue has ended in the failure 'No venues found' with
\* availability never checked.
C25_NoExceptionEscapes ==
    /\ rpc # "escaped"
    /\ (Done /\ Did("search") /\ loc.venues = <<>> /\ ~ErrorNames("Venue search failed: ")) =>
          /\ ~result.success
          /\ ErrorNames("No venues found for '")
          /\ ~Did("availability")

\* The exceptions that do leave reserve(): the parser's, venue or slot
\* entries that are not objects, and a chosen slot whose time does not
\* read HH:MM once the colon is put in. A search or an availability check
\* that raises, an empty venue list and a venue without an id all end in a
\* failure result.
OnlyMalformedDataEscapes ==
    /\ rpc = "escaped" =>
          \/ pc = "raised"
          \/ (loc.venues # <<>> /\ ~loc.venues[1].object)
          \/ (loc.avail_raw # <<>> /\ ~Fetched.objects)
          \/ (loc.avail_raw # <<>> /\ Fetched.slots # <<>>
              /\ FromIsoformatRaises(loc.slot_time_display))
    /\ (Done /\ (ErrorNames("Venue search failed: ") \/ ErrorNames("Availability check failed: ")
                 \/ ErrorNames("Could not determine venue ID from search results.")
                 \/ ErrorNames("No venues found for '"))) =>
          ~result.success /\ ~Did("checkout") /\ ~Did("save")

\* The result's error text is the empty string.
NoErrorText == \A i \in 1..Len(result.error) : result.error[i] = ""

\* C28: a result that reserve() returned has success False exactly when
\* its error text is not empty.
C28_FailureIffErrorText ==
    Done => (~result.success <=> ~NoErrorText)

\* A failure whose API exception had no text of its own: the error still
\* has text.
C28_Witness ==
    /\ Done /\ ~result.success
    /\ ErrorNames("Availability check failed: ")
    /\ result.error[Len(result.error)] = ""
    /\ ~NoErrorText

\* How many times reserve() has done op.
Count(op) == Cardinality({i \in 1..Len(effects) : effects[i] = op})

\* The first time reserve() did op; 0 when it never did.
FirstAt(op) ==
    IF Did(op) THEN CHOOSE i \in 1..Len(effects) :
                        effects[i] = op /\ \A j \in 1..(i - 1) : effects[j] # op
    ELSE 0

\* The fetched response sends the call down the slot-selection path:
\* neither phone needed, nor a waiting list without availability, nor no
\* availability at all.
OnSlotPath ==
    /\ loc.avail_raw # <<>>
    /\ ~Fetched.phone_needed
    /\ ReportsAvailability

\* C29: save_event is called at most once, only on the slot-selection path
\* and only after the checkout URL was built; a call that ended in the
\* phone-needed, the waiting-list or a failure result saved nothing and left
\* the store alone; and a call whose save raised OSError returned the
\* success it returns otherwise, with the fields of its locals.
C29_SavesOnceOnSlotPath ==
    /\ Count("save") <= 1
    /\ Did("save") =>
          /\ OnSlotPath
          /\ Did("checkout") /\ FirstAt("checkout") < FirstAt("save")
    /\ (Done /\ (result.phone_needed \/ ~result.success \/ ~OnSlotPath)) =>
          ~Did("save") /\ store \in Stores
    /\ (Ended /\ Did("warning")) =>
          /\ Done /\ result.success /\ ~result.phone_needed
          /\ result.time = loc.slot_time_display
          /\ result.checkout_url = loc.checkout_url
          /\ result.calendar_url = loc.calendar_url /\ result.calendar_url # <<>>
          /\ result.restaurant_name = loc.restaurant_name
          /\ result.date = loc.date_yyyymmdd
          /\ result.party_size = loc.party_size
          /\ result.available_slots = loc.avail.slots
          /\ NoErrorText

\* A booking was returned although its save raised OSError and the store
\* lost its events.
C29_Witness ==
    /\ Done /\ result.success
    /\ Did("save") /\ Did("warning")
    /\ store = <<>>
    /\ result.calendar_url # <<>>

----------------------------------------------------------------------------
(* pick_best_slot's claim. A time is read off its characters here.          *)

Picked == rpc = "picked"

\* The time of the k-th slot without its colons; a slot that has none
\* counts as 0000.
TimeOf(k) ==
    IF "time" \in DOMAIN loc.slots[k]
    THEN SelectSeq(loc.slots[k].time, LAMBDA ch : ch # ":")
    ELSE <<"0", "0", "0", "0">>

\* Two leading characters for the hour and at least one for the minutes,
\* all digits.
Parseable(t) == Len(t) >= 3 /\ \A i \in 1..Len(t) : IsDigitChar(t[i])

RECURSIVE Number(_)
Number(t) == IF t = <<>> THEN 0 ELSE 10 * Number(SubSeq(t, 1, Len(t) - 1)) + DigitVal(t[Len(t)])

\* Minutes since midnight: the first two digits are hours, the rest minutes.
MinutesOf(t) == 60 * Number(SubSeq(t, 1, 2)) + Number(SubSeq(t, 3, Len(t)))

\* The absolute distance in minutes of two parseable times.
Apart(t, p) ==
    IF MinutesOf(t) >= MinutesOf(p) THEN MinutesOf(t) - MinutesOf(p)
    ELSE MinutesOf(p) - MinutesOf(t)

\* The k-th slot is strictly closer to the preferred time than the j-th:
\* both parse and k is fewer minutes away, or only k parses.
Closer(k, j) ==
    /\ Parseable(loc.preferred_time)
    /\ Parseable(TimeOf(k))
    /\ Parseable(TimeOf(j)) => Apart(TimeOf(k), loc.preferred_time) < Apart(TimeOf(j), loc.preferred_time)

\* C26 as claimed: None exactly for the empty list; else the earliest slot
\* than which none is strictly closer, a slot with an unparseable time
\* being farther than every parseable one.
C26_PicksClosestSlot ==
    Picked =>
        /\ result = <<>> <=> loc.slots = <<>>
        /\ loc.slots # <<>> =>
              \E k \in 1..Len(loc.slots) :
                  /\ result = <<loc.slots[k]>>
                  /\ \A j \in 1..Len(loc.slots) : ~Closer(j, k)
                  /\ \A j \in 1..(k - 1) : Closer(k, j)

\* The distance pick_best_slot goes by: the minutes apart, and 9999 for a
\* slot time or a preferred time that does not parse.
Distance(k) ==
    IF Parseable(TimeOf(k)) /\ Parseable(loc.preferred_time)
    THEN Apart(TimeOf(k), loc.preferred_time)
    ELSE 9999

\* C26 amended: None exactly for the empty list; else the earliest slot of
\* the smallest distance, where an unparseable time counts as 9999 minutes
\* away: farther than every time of day, nearer than digits that read as
\* 9999 minutes away or more.
C26_PicksSmallestDistance ==
    Picked =>
        /\ result = <<>> <=> loc.slots = <<>>
        /\ loc.slots # <<>> =>
              \E k \in 1..Len(loc.slots) :
                  /\ result = <<loc.slots[k]>>
                  /\ \A j \in 1..Len(loc.slots) : Distance(k) <= Distance(j)
                  /\ \A j \in 1..(k - 1) : Distance(k) < Distance(j)

\* An unparseable slot comes first and the parseable one after it is picked.
C26_Witness ==
    /\ Picked
    /\ Len(loc.slots) = 2
    /\ ~Parseable(TimeOf(1)) /\ Parseable(TimeOf(2))
    /\ Parseable(loc.preferred_time)
    /\ result = <<loc.slots[2]>>

----------------------------------------------------------------------------
(* The server's claim. *)

\* A key is configured: the variable is set and not empty.
KeyConfigured == srv.key # <<>> /\ srv.key # <<"">>

\* The request's header is the configured key.
KeyMatches == srv.request.api_key = srv.key

\* The request's handler has run.
Processed == srv.handler # "" /\ srv.status # 401

\* C27: with a key configured, a request to /reserve, /search,
\* /availability or /reservations without the key, or with another one, is
\* answered 401 and no handler runs: no reservation flow, no store read;
\* one with the key is processed; /health is processed without any key; and
\* with no key configured every request is processed.
C27_KeyGuardsTheRoutes ==
    /\ (KeyConfigured /\ srv.request.route \in Guarded /\ ~KeyMatches) =>
          /\ srv.handler = "" /\ srv.ran = <<>>
          /\ srv.stage = "answered" => srv.status = 401
    /\ srv.stage = "answered" =>
          /\ (KeyConfigured /\ srv.request.route \in Guarded /\ KeyMatches) => Processed
          /\ srv.request.route = "/health" => Processed /\ srv.status = 200
          /\ ~KeyConfigured => Processed

\* A key is configured and a request to /reserve without any header was
\* answered 401.
C27_Witness ==
    /\ KeyConfigured
    /\ srv.stage = "answered"
    /\ srv.request.route = "/reserve" /\ srv.request.api_key = <<>>
    /\ srv.status = 401 /\ srv.ran = <<>>

----------------------------------------------------------------------------
(* The weekday table's claim. *)

\* The named weekday that comes first in the table, Monday to Sunday.
FirstInTable == CHOOSE W \in NamedWeekdays : \A V \in NamedWeekdays : W <= V

\* C30: without tonight, today and tomorrow, a text that names several
\* weekdays gets the date of the one that comes first in the Monday-to-Sunday
\* table, 1 to 7 days ahead, whatever their order in the text and wherever a
\* "next" stands.
C30_FirstWeekdayInTableDecides ==
    (Returned /\ ~Says(TonightWords \cup TomorrowWords) /\ Cardinality(NamedWeekdays) >= 2) =>
        /\ req.date # None
        /\ Weekday(req.date) = FirstInTable
        /\ DaysFromTo(Today, req.date) \in 1..7

\* On Friday 2024-03-01, "next Friday wed" is Wednesday 2024-03-06: not the
\* weekday named first, and not the one after "next".
C30_Witness ==
    /\ Returned
    /\ Today = MkDate(2024, 3, 1)
    /\ text = <<Word("next"), Word("Friday"), Word("wed")>>
    /\ req.date = MkDate(2024, 3, 6)

====
